---- MODULE Spec2Model ----
(***************************************************************************)
(* A model of the pixels repository (PixelIt / PixelItWorker).             *)
(*                                                                         *)
(* Spec         the offloaded pipeline PixelItWorker: its operation queue, *)
(*              the worker, the surface and the callers of applyEffects.   *)
(* SpecLive     Spec with the event loop running every task it is given.   *)
(* SpecTurns    Spec with applyEffects called several times in one turn.   *)
(* SpecGray     convertGrayscale of both pipelines on RGBA pixels.         *)
(* SpecColor    findSimilarColor / colorSim on colors and palettes.        *)
(* SpecPalette  convertPalette of both pipelines and its color statistics. *)
(* SpecConfig   the setters and getters of the configuration.              *)
(* SpecResize   resizeImage and the size limits.                           *)
(* SpecSync     the synchronous pipeline PixelIt.                          *)
(* SpecExtract  extractPalette of color-utils.                             *)
(* SpecPixelate the block columns pixelate draws in both pipelines.        *)
(* SpecImport   the hex palette import and the clearing of the demo page.  *)
(* SpecControls the listeners of canvas-controls.                          *)
(*                                                                         *)
(* One step of Spec is one task of the JavaScript event loop: an API call  *)
(* by the page, the worker answering a request, or the onmessage handler   *)
(* of the main thread. The continuation of a resolved promise is part of   *)
(* the step that resolves it. The catch handler of an operation that threw *)
(* runs after the code that queued it has returned, so it is a step of its *)
(* own (CatchHandler).                                                     *)
(***************************************************************************)
EXTENDS Integers, Sequences, FiniteSets, TLC

VARIABLES
    scale,              \* PixelItWorker.scale, in hundredths (8 is 0.08)
    palette,            \* PixelItWorker.palette
    colorStatsEnabled,  \* PixelItWorker.colorStatsEnabled
    endColorStats,      \* PixelItWorker.endColorStats
    maxWidth,           \* PixelItWorker.maxWidth, 0 for undefined
    maxHeight,          \* PixelItWorker.maxHeight, 0 for undefined
    pendingOperations,  \* PixelItWorker.pendingOperations
    isProcessing,       \* PixelItWorker.isProcessing
    natural,            \* drawfrom.naturalWidth / naturalHeight
    canvas,             \* drawto: its size and what it shows
    toWorker,           \* requests posted to the worker and not yet answered
    fromWorker,         \* answers posted by the worker and not yet handled
    resolved,           \* ids of the operations whose promise has resolved
    catching,           \* the catch handler of an operation that threw is scheduled:
                        \* "no", "page" (the page's code may still run before it)
                        \* or "task" (it runs next)
    effects,            \* the applyEffects calls made so far
    calls,              \* history: the surface-affecting API calls, in order
    writes,             \* history: the writes to the surface, in order
    sets,               \* history: the number of setter calls made
    pure,               \* the input and result of a pure function (SpecGray, SpecColor, ...)
    config,             \* the configuration of a pipeline of either class (SpecConfig)
    sync                \* a pipeline whose calls run to their end: its source, its
                        \* surface and how the last call ended (SpecSync)

vars == <<scale, palette, colorStatsEnabled, endColorStats, maxWidth, maxHeight,
          pendingOperations, isProcessing, natural, canvas, toWorker, fromWorker,
          resolved, catching, effects, calls, writes, sets, pure, config, sync>>

(***************************************************************************)
(* Bounds of the model.                                                    *)
(***************************************************************************)
\* the number of operations queued for the worker, and of draw / resizeImage
\* calls by the page, in a behaviour
MaxCalls == 3
\* the number of applyEffects calls in a behaviour
MaxEffects == 1
\* the number of setter calls by the page in a behaviour
MaxSets == 1

(***************************************************************************)
(* Values.                                                                 *)
(***************************************************************************)
\* the scale the constructor and an invalid setScale fall back to
DefaultScale == 8
\* the largest scale setScale accepts
MaxScale == 50

\* the palette a pipeline starts with.  constants.ts sets its sixteen colors;
\* no operation of Spec reads the colors of a palette, and two stand for them.
DEFAULT_PALETTE == << <<0, 0, 0>>, <<255, 255, 255>> >>
\* a palette of the page
PalB == << <<10, 0, 0>>, <<0, 10, 0>> >>
\* the palettes the page passes to setPalette
Palettes == {DEFAULT_PALETTE, PalB}

\* A number of the page outside the stored fields is a pair: an integer n is
\* <<"number", n>>; undefined, NaN, Infinity and Number.MIN_VALUE (2^-1074,
\* the smallest positive double) are the pairs below.
Num(n) == <<"number", n>>
Undefined == <<"undefined", 0>>
NaN == <<"NaN", 0>>
Infinity == <<"Infinity", 0>>
MIN_VALUE == <<"MIN_VALUE", 0>>

\* if (v): undefined, NaN and 0 are falsy
truthy(v) == v[1] \in {"Infinity", "MIN_VALUE"} \/ (v[1] = "number" /\ v[2] # 0)

\* v > n and v <= n for an integer n
greaterThan(v, n) ==
    \/ v[1] = "number" /\ v[2] > n
    \/ v[1] = "Infinity"
    \/ v[1] = "MIN_VALUE" /\ n <= 0

atMost(v, n) ==
    \/ v[1] = "number" /\ v[2] <= n
    \/ v[1] = "MIN_VALUE" /\ n >= 1

\* v * 0.01 in hundredths, for 0 < v <= 50: an integer n gives n hundredths,
\* and 2^-1074 * 0.01 is below half of the smallest double and rounds to 0
timesHundredth(v) == IF v[1] = "MIN_VALUE" THEN 0 ELSE v[2]

\* arguments the page passes to setScale: valid ones and invalid ones
ScaleArgs == {Num(0), Num(50), Num(51)}
\* arguments the page passes to setMaxWidth / setMaxHeight (0: undefined)
WidthArgs == {0, 40}
HeightArgs == {0, 10}
\* the natural size of the source image once it has loaded
LoadedSize == [w |-> 100, h |-> 50]
\* the natural size of an image that has not loaded
NoSize == [w |-> 0, h |-> 0]

\* getColorStats() before any palette pass returned stats
NoStats == [pass |-> 0, total |-> 0]

(***************************************************************************)
(* The state of the pipeline as one record, so that a handler and the      *)
(* handlers it calls compose as functions from state to state.             *)
(***************************************************************************)
Cur ==
    [scale |-> scale, palette |-> palette, colorStatsEnabled |-> colorStatsEnabled,
     endColorStats |-> endColorStats, maxWidth |-> maxWidth, maxHeight |-> maxHeight,
     pendingOperations |-> pendingOperations, isProcessing |-> isProcessing,
     natural |-> natural, canvas |-> canvas, toWorker |-> toWorker,
     fromWorker |-> fromWorker, resolved |-> resolved, catching |-> catching,
     effects |-> effects,
     calls |-> calls, writes |-> writes, sets |-> sets]

Becomes(st) ==
    /\ scale' = st.scale
    /\ palette' = st.palette
    /\ colorStatsEnabled' = st.colorStatsEnabled
    /\ endColorStats' = st.endColorStats
    /\ maxWidth' = st.maxWidth
    /\ maxHeight' = st.maxHeight
    /\ pendingOperations' = st.pendingOperations
    /\ isProcessing' = st.isProcessing
    /\ natural' = st.natural
    /\ canvas' = st.canvas
    /\ toWorker' = st.toWorker
    /\ fromWorker' = st.fromWorker
    /\ resolved' = st.resolved
    /\ catching' = st.catching
    /\ effects' = st.effects
    /\ calls' = st.calls
    /\ writes' = st.writes
    /\ sets' = st.sets
    /\ UNCHANGED <<pure, config, sync>>

(***************************************************************************)
(* The surface.  A canvas is its size and what it shows: the draw or       *)
(* resizeImage call that painted the source (base), the operations whose   *)
(* results were put on top (ops), and whether a result of another size was *)
(* put on it, which leaves a mix of two images (torn).                     *)
(***************************************************************************)
Painted(size, id) ==
    [w |-> size.w, h |-> size.h, base |-> id, ops |-> <<>>, torn |-> FALSE]

\* ctx.putImageData(imageData, 0, 0): writes the rectangle of imageData only
putImageData(cv, image) ==
    IF image.w = cv.w /\ image.h = cv.h
    THEN image
    ELSE [w |-> cv.w, h |-> cv.h, base |-> image.base, ops |-> image.ops, torn |-> TRUE]

\* ctx.getImageData throws IndexSizeError on an empty rectangle
getImageDataThrows(cv) == cv.w = 0 \/ cv.h = 0

resizeSize_OriginalHeight(nat, mw, mh) ==
    LET first  == mw # 0 /\ nat.w > mw
        w1     == IF first THEN mw ELSE nat.w
        hn     == IF first THEN nat.h * mw ELSE nat.h
        hd     == IF first THEN nat.w ELSE 1
        second == mh # 0 /\ nat.h > mh
    IN  IF second
        THEN [w |-> (w1 * mh * hd) \div hn, h |-> mh]
        ELSE [w |-> w1, h |-> hn \div hd]

\* the size resizeImage gives the canvas: width first, then height on the
\* result; the height after the first stage is the fraction hn / hd, and the
\* canvas keeps the integer part of what it is assigned.  The fractions are
\* exact; the doubles of the code round, and for the sizes used in this
\* module their integer parts and comparisons are those of the fractions
resizeSize(nat, mw, mh) ==
    LET first  == mw # 0 /\ nat.w > mw
        w1     == IF first THEN mw ELSE nat.w
        hn     == IF first THEN nat.h * mw ELSE nat.h
        hd     == IF first THEN nat.w ELSE 1
        second == mh # 0 /\ hn > mh * hd
    IN  IF second
        THEN [w |-> (w1 * mh * hd) \div hn, h |-> mh]
        ELSE [w |-> w1, h |-> hn \div hd]

\* the id the next draw / resizeImage / queued operation gets
NextId(st) == Len(st.calls) + 1

draw(st, eff) ==
    LET id == NextId(st) IN
    [st EXCEPT !.canvas = Painted(st.natural, id),
               !.calls = Append(@, [kind |-> "draw", eff |-> eff]),
               !.writes = Append(@, id)]

resizeImage(st, eff) ==
    LET id == NextId(st) IN
    [st EXCEPT !.canvas = Painted(resizeSize(st.natural, st.maxWidth, st.maxHeight), id),
               !.calls = Append(@, [kind |-> "resize", eff |-> eff]),
               !.writes = Append(@, id)]

(***************************************************************************)
(* Setters.                                                                *)
(***************************************************************************)
setScale(st, v) ==
    [st EXCEPT !.scale = IF greaterThan(v, 0) /\ atMost(v, MaxScale)
                         THEN timesHundredth(v)
                         ELSE DefaultScale]

setMaxWidth(st, v) == [st EXCEPT !.maxWidth = v]

setMaxHeight(st, v) == [st EXCEPT !.maxHeight = v]

setColorStatsCollection(st, b) == [st EXCEPT !.colorStatsEnabled = b]

setPalette(st, p) == [st EXCEPT !.palette = p]

setPaletteByIndex_Clamped(st, index) ==
    LET i == IF index < 0 THEN 0
             ELSE IF index >= Len(st.availablePalettes)
                  THEN Len(st.availablePalettes) - 1 ELSE index
    IN  [st EXCEPT !.currentPaletteIndex = i, !.palette = st.availablePalettes[i + 1]]

\* index counts from 0 as in the code; availablePalettes is a sequence from 1
setPaletteByIndex(st, index) ==
    IF index >= 0 /\ index < Len(st.availablePalettes)
    THEN [st EXCEPT !.currentPaletteIndex = index,
                    !.palette = st.availablePalettes[index + 1]]
    ELSE st

addPalette_Replaces(st, pal) == [st EXCEPT !.availablePalettes = <<pal>>]

\* JSON.stringify(p) === paletteStr: two palettes of equal colors are equal
addPalette(st, pal) ==
    LET exists == \E i \in DOMAIN st.availablePalettes : st.availablePalettes[i] = pal
    IN  IF ~exists THEN [st EXCEPT !.availablePalettes = Append(@, pal)] ELSE st

\* an optional palette of a config or of the options of applyEffects
NoPalette == <<"undefined", <<>>>>
Given(pal) == <<"palette", pal>>

(***************************************************************************)
(* The queue.  A pending operation is the closure queueOperation pushed:   *)
(* its kind, its id, the applyEffects call that awaits it (0: none), and   *)
(* what held when it was queued (enq: the settings, and whether the queue  *)
(* was busy), which the closure of the code does not capture and which     *)
(* only the properties read.                                               *)
(***************************************************************************)
Settings(st) ==
    [scale |-> st.scale, palette |-> st.palette, collectStats |-> st.colorStatsEnabled,
     busy |-> st.isProcessing]

\* the message the closure posts when it runs: the buffer read from the
\* canvas and the options read from the fields at that moment
Request_AtEnqueue(st, op) ==
    [id |-> op.id, operation |-> op.kind, imageData |-> st.canvas,
     scale |-> op.enq.scale, palette |-> op.enq.palette,
     collectStats |-> op.enq.collectStats, op |-> op]

Request(st, op) ==
    [id |-> op.id, operation |-> op.kind, imageData |-> st.canvas,
     scale |-> st.scale, palette |-> st.palette,
     collectStats |-> st.colorStatsEnabled, op |-> op]

\* the closure of pixelate / convertGrayscale / convertPalette
postMessage(st, op) ==
    [st EXCEPT !.toWorker = @ \cup {Request(st, op)}]

shift_FromEnd(pend) ==
    [op |-> pend[Len(pend)], rest |-> SubSeq(pend, 1, Len(pend) - 1)]

\* pendingOperations.shift(): the operation taken and the queue left
shift(pend) == [op |-> Head(pend), rest |-> Tail(pend)]

RECURSIVE processNextOperation(_)
RECURSIVE resolvePromise(_, _)
RECURSIVE queueOperation(_, _, _)
RECURSIVE resumeEffects(_, _)

StartsQueue_Always(st) == TRUE

\* whether queueOperation starts the queue
StartsQueue(st) == ~st.isProcessing

queueOperation(st, kind, eff) ==
    LET op == [id |-> NextId(st), kind |-> kind, eff |-> eff, enq |-> Settings(st)]
        s1 == [st EXCEPT !.pendingOperations = Append(@, op),
                         !.calls = Append(@, [kind |-> kind, eff |-> eff])]
        s2 == processNextOperation(s1)
    IN  IF StartsQueue(st)
        THEN IF s2.catching = "task" THEN [s2 EXCEPT !.catching = "page"] ELSE s2
        ELSE s1

\* nextOperation() rejects when its closure throws: the wrapper never calls
\* resolve(), and the catch handler, which goes on to the next operation, is
\* scheduled to run once the code that runs now has returned.  Otherwise the
\* closure has posted its message and the wrapper resolves the operation's
\* promise
processNextOperation(st) ==
    IF st.pendingOperations = <<>>
    THEN [st EXCEPT !.isProcessing = FALSE]
    ELSE LET op == shift(st.pendingOperations).op
             s1 == [st EXCEPT !.isProcessing = TRUE,
                              !.pendingOperations = shift(@).rest]
         IN  IF getImageDataThrows(s1.canvas)
             THEN [s1 EXCEPT !.catching = "task"]
             ELSE resolvePromise(postMessage(s1, op), op)

\* resolve() of queueOperation's promise, and the continuation of the
\* applyEffects call that awaits it
resolvePromise(st, op) ==
    LET s1 == [st EXCEPT !.resolved = @ \cup {op.id}]
    IN  IF op.eff = 0 THEN s1 ELSE resumeEffects(s1, op.eff)

\* applyEffects after an await: the next conversion the options ask for,
\* then resizeImage if a size was given
resumeEffects(st, e) ==
    LET ef == st.effects[e]
        o  == ef.opts
        finish(s) ==
            LET s1 == IF o.resize THEN resizeImage(s, e) ELSE s
            IN  [s1 EXCEPT !.effects[e].stage = "done"]
        toPalette(s) ==
            IF o.applyPalette
            THEN queueOperation([s EXCEPT !.effects[e].stage = "palette"], "palette", e)
            ELSE finish(s)
    IN  CASE ef.stage = "pixelate" ->
                IF o.grayscale
                THEN queueOperation([st EXCEPT !.effects[e].stage = "grayscale"],
                                    "grayscale", e)
                ELSE toPalette(st)
          [] ef.stage = "grayscale" -> toPalette(st)
          [] ef.stage = "palette" -> finish(st)
          [] OTHER -> st

\* what an applyEffects call still reads of its options after the first await
Steps(o) ==
    [grayscale |-> o.grayscale, applyPalette |-> o.applyPalette,
     resize |-> o.maxWidth # 0 \/ o.maxHeight # 0]

\* the options applyEffects applies before it draws
applyOptions(st, o) ==
    LET s1 == IF truthy(o.scale) THEN setScale(st, o.scale) ELSE st
        s2 == IF o.debug # "unset" THEN setColorStatsCollection(s1, o.debug = "true") ELSE s1
        s3 == IF o.palette # NoPalette THEN setPalette(s2, o.palette[2])
              ELSE IF o.paletteIndex # Undefined
                   THEN setPaletteByIndex(s2, o.paletteIndex[2])
                   ELSE s2
        s4 == IF o.maxWidth # 0 THEN setMaxWidth(s3, o.maxWidth) ELSE s3
    IN  IF o.maxHeight # 0 THEN setMaxHeight(s4, o.maxHeight) ELSE s4

applyEffects(st, o) ==
    LET s5 == applyOptions(st, o)
        e  == Len(st.effects) + 1
        s6 == draw(s5, e)
        s7 == [s6 EXCEPT !.effects = Append(@, [opts |-> Steps(o), stage |-> "pixelate"])]
    IN  queueOperation(s7, "pixelate", e)

(***************************************************************************)
(* The worker (pixelate-worker.ts).  An answer carries the id of its       *)
(* request for the properties' sake; the code's messages carry none, and   *)
(* handleWorkerMessage reads none.                                         *)
(***************************************************************************)
NoImage == [w |-> 0, h |-> 0, base |-> 0, ops |-> <<>>, torn |-> FALSE]

ErrorAnswer(r) ==
    [id |-> r.id, operation |-> "none", error |-> TRUE, imageData |-> NoImage,
     hasStats |-> FALSE, colorStats |-> NoStats]

\* the image a handler returns: the request's image with the operation applied
Processed(r) == [r.imageData EXCEPT !.ops = Append(@, r.id)]

\* Math.floor(options.width * options.scale)
scaledSize(r) ==
    [w |-> (r.imageData.w * r.scale) \div 100, h |-> (r.imageData.h * r.scale) \div 100]

\* drawImage from a canvas with a zero dimension throws, which the catch of
\* handlePixelate reports as an error
pixelateThrows(r) == scaledSize(r).w = 0 \/ scaledSize(r).h = 0

handlePixelate(r, envFails) ==
    IF envFails \/ pixelateThrows(r)
    THEN ErrorAnswer(r)
    ELSE [id |-> r.id, operation |-> "pixelate", error |-> FALSE,
          imageData |-> Processed(r), hasStats |-> FALSE, colorStats |-> NoStats]

handleGrayscale(r) ==
    [id |-> r.id, operation |-> "grayscale", error |-> FALSE,
     imageData |-> Processed(r), hasStats |-> FALSE, colorStats |-> NoStats]

\* colorStats counts every pixel once, under the palette color it became
handlePalette(r) ==
    [id |-> r.id, operation |-> "palette", error |-> FALSE,
     imageData |-> Processed(r), hasStats |-> r.collectStats,
     colorStats |-> IF r.collectStats
                    THEN [pass |-> r.id, total |-> r.imageData.w * r.imageData.h]
                    ELSE NoStats]

\* self.onmessage of the worker
onmessage(r, envFails) ==
    CASE r.operation = "pixelate" -> handlePixelate(r, envFails)
      [] r.operation = "grayscale" -> handleGrayscale(r)
      [] r.operation = "palette" -> handlePalette(r)

(***************************************************************************)
(* PixelItWorker.handleWorkerMessage.                                      *)
(***************************************************************************)
\* what the switch of handleWorkerMessage does to the surface and the stats
applyAnswer(st, msg) ==
    [st EXCEPT !.canvas = putImageData(@, msg.imageData),
               !.endColorStats = IF msg.operation = "palette" /\ msg.hasStats
                                 THEN msg.colorStats ELSE @,
               !.writes = Append(@, msg.id)]

handleWorkerMessage_DispatchFirst(st, msg) ==
    IF msg.error
    THEN processNextOperation(st)
    ELSE applyAnswer(processNextOperation(st), msg)

handleWorkerMessage_ErrorStops(st, msg) ==
    IF msg.error
    THEN st
    ELSE processNextOperation(applyAnswer(st, msg))

handleWorkerMessage_NoNext(st, msg) ==
    IF msg.error
    THEN processNextOperation(st)
    ELSE applyAnswer(st, msg)

handleWorkerMessage(st, msg) ==
    IF msg.error
    THEN processNextOperation(st)
    ELSE processNextOperation(applyAnswer(st, msg))

(***************************************************************************)
(* Actions.                                                                *)
(***************************************************************************)
\* the operations an applyEffects call with options o queues: pixelate, ...
CallsOf(o) ==
    1 + (IF o.grayscale THEN 1 ELSE 0) + (IF o.applyPalette THEN 1 ELSE 0)

\* the operations an applyEffects call in progress will still queue
Remaining(ef) ==
    LET o == ef.opts
        g == IF o.grayscale THEN 1 ELSE 0
        p == IF o.applyPalette THEN 1 ELSE 0
    IN  CASE ef.stage = "pixelate" -> g + p
          [] ef.stage = "grayscale" -> p
          [] OTHER -> 0

RECURSIVE SumRemaining(_)
SumRemaining(efs) ==
    IF efs = <<>> THEN 0 ELSE Remaining(Head(efs)) + SumRemaining(Tail(efs))

\* the calls made so far, the draw and resizeImage of applyEffects apart
Counted ==
    Cardinality({i \in DOMAIN calls :
                    calls[i].eff = 0 \/ calls[i].kind \in {"pixelate", "grayscale", "palette"}})

\* room for n more calls within the bound
Room(n) == Counted + SumRemaining(effects) + n <= MaxCalls

\* the options the page passes to applyEffects; debug is "true", "false" or
\* "unset" for an option left out
EffectsOptions ==
    [scale : {Undefined, Num(50)}, debug : {"unset", "false"}, palette : {NoPalette},
     paletteIndex : {Undefined},
     grayscale : BOOLEAN, applyPalette : BOOLEAN,
     maxWidth : WidthArgs, maxHeight : {0}]

\* the page's code runs: no catch handler has to run first
PageRuns == catching # "task"

Pixelate == PageRuns /\ Room(1) /\ Becomes(queueOperation(Cur, "pixelate", 0))

ConvertGrayscale == PageRuns /\ Room(1) /\ Becomes(queueOperation(Cur, "grayscale", 0))

ConvertPalette == PageRuns /\ Room(1) /\ Becomes(queueOperation(Cur, "palette", 0))

Draw == PageRuns /\ Room(1) /\ Becomes(draw(Cur, 0))

ResizeImage == PageRuns /\ Room(1) /\ Becomes(resizeImage(Cur, 0))

ApplyEffects ==
    \E o \in EffectsOptions :
        /\ PageRuns
        /\ Len(effects) < MaxEffects
        /\ Room(CallsOf(o))
        /\ Becomes(applyEffects(Cur, o))

\* a setter call by the page, counted
Called(st) == [st EXCEPT !.sets = @ + 1]

SetScale == \E v \in ScaleArgs : PageRuns /\ sets < MaxSets /\ Becomes(Called(setScale(Cur, v)))

SetMaxWidth == \E v \in WidthArgs : PageRuns /\ sets < MaxSets /\ Becomes(Called(setMaxWidth(Cur, v)))

SetMaxHeight == \E v \in HeightArgs : PageRuns /\ sets < MaxSets /\ Becomes(Called(setMaxHeight(Cur, v)))

SetColorStatsCollection ==
    \E b \in BOOLEAN : PageRuns /\ sets < MaxSets /\ Becomes(Called(setColorStatsCollection(Cur, b)))

SetPalette == \E p \in Palettes : PageRuns /\ sets < MaxSets /\ Becomes(Called(setPalette(Cur, p)))

\* the source image finishes loading
ImageLoad == catching = "no" /\ natural = NoSize /\ Becomes([Cur EXCEPT !.natural = LoadedSize])

\* the worker answers one of the requests it holds
WorkerAnswers ==
    \E r \in toWorker : \E envFails \in BOOLEAN :
        Becomes([Cur EXCEPT !.toWorker = @ \ {r},
                            !.fromWorker = Append(@, onmessage(r, envFails))])

\* the main thread handles the oldest answer
HandleWorkerMessage ==
    /\ catching = "no"
    /\ fromWorker # <<>>
    /\ Becomes(handleWorkerMessage([Cur EXCEPT !.fromWorker = Tail(@)], Head(fromWorker)))

\* the catch handler of processNextOperation runs
CatchHandler ==
    /\ catching # "no"
    /\ Becomes(processNextOperation([Cur EXCEPT !.catching = "no"]))

\* the state the constructor leaves: setScale(8).resizeImage().draw()
Constructed ==
    /\ scale = DefaultScale
    /\ palette = DEFAULT_PALETTE
    /\ colorStatsEnabled = FALSE
    /\ endColorStats = NoStats
    /\ maxWidth = 0
    /\ maxHeight = 0
    /\ pendingOperations = <<>>
    /\ isProcessing = FALSE
    /\ natural \in {NoSize, LoadedSize}
    /\ canvas = Painted(natural, 0)
    /\ toWorker = {}
    /\ fromWorker = <<>>
    /\ resolved = {}
    /\ catching = "no"
    /\ effects = <<>>
    /\ calls = <<>>
    /\ writes = <<>>
    /\ sets = 0

pipeline == <<scale, palette, colorStatsEnabled, endColorStats, maxWidth, maxHeight,
              pendingOperations, isProcessing, natural, canvas, toWorker, fromWorker,
              resolved, catching, effects, calls, writes, sets>>

\* no pipeline is configured outside SpecConfig
NoConfig == [class |-> "none"]
\* no call is followed to its end outside SpecSync
NoSync == [class |-> "none"]

Init == Constructed /\ pure = [fn |-> "none"] /\ config = NoConfig /\ sync = NoSync

Next ==
    \/ Pixelate
    \/ ConvertGrayscale
    \/ ConvertPalette
    \/ Draw
    \/ ResizeImage
    \/ ApplyEffects
    \/ SetScale
    \/ SetMaxWidth
    \/ SetMaxHeight
    \/ SetColorStatsCollection
    \/ SetPalette
    \/ ImageLoad
    \/ WorkerAnswers
    \/ HandleWorkerMessage
    \/ CatchHandler

Spec == Init /\ [][Next]_vars

\* the applyEffects calls of a behaviour of SpecTurns
MaxTurns == 2

\* the page calls applyEffects once the promise of every earlier applyEffects
\* call has resolved
ApplyEffectsInTurn ==
    \E o \in EffectsOptions :
        /\ PageRuns
        /\ Len(effects) < MaxTurns
        /\ \A e \in DOMAIN effects : effects[e].stage = "done"
        /\ Room(CallsOf(o))
        /\ Becomes(applyEffects(Cur, o))

NextTurns ==
    \/ ApplyEffectsInTurn
    \/ ImageLoad
    \/ WorkerAnswers
    \/ HandleWorkerMessage
    \/ CatchHandler

SpecTurns == Init /\ [][NextTurns]_vars

\* the worker answers every request it holds, the browser delivers every
\* answer to worker.onmessage and runs every scheduled catch handler
SpecLive ==
    /\ Init
    /\ [][Next]_vars
    /\ WF_vars(WorkerAnswers)
    /\ WF_vars(HandleWorkerMessage)
    /\ WF_vars(CatchHandler)

(***************************************************************************)
(* convertGrayscale: PixelIt.convertGrayscale of the synchronous pipeline  *)
(* and handleGrayscale of the worker.  A buffer is a sequence of pixels    *)
(* <<r, g, b, a>>.                                                         *)
(***************************************************************************)
\* the pixels a grayscale buffer of SpecGray has at most
MaxPixels == 2

\* channel values of the buffers tried
Channels == {0, 100, 255}
Alphas == {0, 255}
Pixels == {<<r, g, b, a>> : r \in Channels, g \in Channels, b \in Channels, a \in Alphas}

RECURSIVE Buffers(_)
Buffers(n) ==
    IF n = 0 THEN {<<>>}
    ELSE Buffers(n - 1) \cup {Append(d, x) : d \in {b \in Buffers(n - 1) : Len(b) = n - 1}, x \in Pixels}

\* what a Uint8ClampedArray stores when assigned n / d: the nearest integer,
\* a tie going to the even one, clamped to [0, 255]
toUint8Clamped(n, d) ==
    LET q == n \div d
        m == n % d
        v == IF 2 * m > d \/ (2 * m = d /\ q % 2 = 1) THEN q + 1 ELSE q
    IN  IF v > 255 THEN 255 ELSE IF v < 0 THEN 0 ELSE v

\* Math.round(n / d): the nearest integer, a tie going up
round(n, d) == (2 * n + d) \div (2 * d)

grayAverage_Luminance(px) ==
    LET g == toUint8Clamped(round(299 * px[1] + 587 * px[2] + 114 * px[3], 1000), 1)
    IN  <<g, g, g, px[4]>>

\* the loop body of PixelIt.convertGrayscale: (r + g + b) / 3
grayAverage(px) ==
    LET g == toUint8Clamped(px[1] + px[2] + px[3], 3) IN <<g, g, g, px[4]>>

\* the loop body of handleGrayscale: Math.round(0.299 r + 0.587 g + 0.114 b)
grayLuminance(px) ==
    LET g == toUint8Clamped(round(299 * px[1] + 587 * px[2] + 114 * px[3], 1000), 1)
    IN  <<g, g, g, px[4]>>

convertGrayscale(data) == [i \in DOMAIN data |-> grayAverage(data[i])]

handleGrayscaleData(data) == [i \in DOMAIN data |-> grayLuminance(data[i])]

InitGray ==
    /\ Constructed
    /\ config = NoConfig
    /\ sync = NoSync
    /\ natural = LoadedSize
    /\ \E d \in Buffers(MaxPixels) \ {<<>>} :
           pure = [fn |-> "grayscale", data |-> d, sync |-> <<>>, worker |-> <<>>]

\* the synchronous pipeline converts the buffer
SyncConvertGrayscale ==
    /\ pure.sync = <<>>
    /\ pure' = [pure EXCEPT !.sync = convertGrayscale(pure.data)]
    /\ UNCHANGED <<pipeline, config, sync>>

\* the worker converts the same buffer
WorkerConvertGrayscale ==
    /\ pure.worker = <<>>
    /\ pure' = [pure EXCEPT !.worker = handleGrayscaleData(pure.data)]
    /\ UNCHANGED <<pipeline, config, sync>>

NextGray == SyncConvertGrayscale \/ WorkerConvertGrayscale

SpecGray == InitGray /\ [][NextGray]_vars

(***************************************************************************)
(* colorSim and findSimilarColor (color-utils.ts).                         *)
(***************************************************************************)
\* the entries a palette of SpecColor has at most
MaxPaletteLen == 3

\* the colors and palettes tried: two pairs at equal distance from <<5, 5, 0>>
Colors == {<<0, 0, 0>>, <<10, 0, 0>>, <<0, 10, 0>>, <<5, 5, 0>>, <<255, 255, 255>>}

RECURSIVE PalettesUpTo(_)
PalettesUpTo(n) ==
    IF n = 0 THEN {<<>>}
    ELSE PalettesUpTo(n - 1)
           \cup {Append(p, c) : p \in {q \in PalettesUpTo(n - 1) : Len(q) = n - 1}, c \in Colors}

\* the sum d of the squared channel differences.  The code returns
\* Math.sqrt(d); the square root is strictly increasing and exact enough to
\* keep distinct sums below 3 * 255^2 apart, so every comparison of two
\* distances is the comparison of their sums.
colorSim(a, b) ==
    (a[1] - b[1]) * (a[1] - b[1]) + (a[2] - b[2]) * (a[2] - b[2])
        + (a[3] - b[3]) * (a[3] - b[3])

replaces_Strictly(nextColor, currentSim) == nextColor < currentSim

replaces_Farther(nextColor, currentSim) == nextColor >= currentSim

\* the test of findSimilarColor's loop: the candidate replaces the selection
replaces(nextColor, currentSim) == nextColor <= currentSim

\* palette.forEach of findSimilarColor from entry i on
RECURSIVE forEach(_, _, _, _, _)
forEach(actualColor, pal, i, selectedColor, currentSim) ==
    IF i > Len(pal) THEN selectedColor
    ELSE LET nextColor == colorSim(actualColor, pal[i])
         IN  IF replaces(nextColor, currentSim)
             THEN forEach(actualColor, pal, i + 1, pal[i], nextColor)
             ELSE forEach(actualColor, pal, i + 1, selectedColor, currentSim)

findSimilarColor(actualColor, pal) ==
    forEach(actualColor, pal, 1, pal[1], colorSim(actualColor, pal[1]))

InitColor ==
    /\ Constructed
    /\ config = NoConfig
    /\ sync = NoSync
    /\ natural = LoadedSize
    /\ \E c \in Colors : \E p \in PalettesUpTo(MaxPaletteLen) \ {<<>>} :
           pure = [fn |-> "nearest", color |-> c, palette |-> p, out |-> <<>>]

FindSimilarColor ==
    /\ pure.out = <<>>
    /\ pure' = [pure EXCEPT !.out = findSimilarColor(pure.color, pure.palette)]
    /\ UNCHANGED <<pipeline, config, sync>>

NextColor == FindSimilarColor

SpecColor == InitColor /\ [][NextColor]_vars

(***************************************************************************)
(* convertPalette: PixelIt.convertPalette of the synchronous pipeline and  *)
(* handlePalette of the worker, on the buffer.                             *)
(***************************************************************************)
\* the pixels a buffer of SpecPalette has at most
MaxPalettePixels == 2
\* the entries a palette of SpecPalette has at most
MaxActivePaletteLen == 2

\* the pixels tried: a palette color, colors between palette colors and
\* colors far from all of them, opaque and transparent
PalettePixels ==
    {<<c[1], c[2], c[3], a>> : c \in {<<0, 0, 0>>, <<5, 5, 0>>, <<200, 100, 7>>}, a \in Alphas}

RECURSIVE PaletteBuffers(_)
PaletteBuffers(n) ==
    IF n = 0 THEN {<<>>}
    ELSE PaletteBuffers(n - 1)
           \cup {Append(d, x) : d \in {b \in PaletteBuffers(n - 1) : Len(b) = n - 1},
                                x \in PalettePixels}

similarColor_Unmatched(color, pal) == color

\* similarColor of the worker, PixelIt.similarColor with this.palette
similarColor(color, pal) == findSimilarColor(color, pal)

\* the loop body of convertPalette and of handlePalette: the nearest palette
\* color is stored in the Uint8ClampedArray, alpha stays
paletteColor(px, pal) ==
    LET similarCol == similarColor(<<px[1], px[2], px[3]>>, pal)
    IN  <<toUint8Clamped(similarCol[1], 1), toUint8Clamped(similarCol[2], 1),
          toUint8Clamped(similarCol[3], 1), px[4]>>

convertPalette(data, pal) == [i \in DOMAIN data |-> paletteColor(data[i], pal)]

handlePaletteData(data, pal) == [i \in DOMAIN data |-> paletteColor(data[i], pal)]

\* no color counted yet: colorStats = {}
EmptyStats == [c \in {} |-> 0]

countColor_Once(color, colorCount) ==
    IF color \in DOMAIN colorCount THEN colorCount ELSE colorCount @@ (color :> 1)

\* countColor, called by PixelIt._countColor with the key of the stored
\* color: the key r,g,b names the color, so the color stands for its key
countColor(color, colorCount) ==
    IF color \in DOMAIN colorCount
    THEN [colorCount EXCEPT ![color] = @ + 1]
    ELSE colorCount @@ (color :> 1)

\* the counting of handlePalette's loop body
countInWorker(color, colorStats) ==
    IF color \in DOMAIN colorStats
    THEN [colorStats EXCEPT ![color] = @ + 1]
    ELSE colorStats @@ (color :> 1)

\* the colorStats of PixelIt.convertPalette from pixel i on
RECURSIVE convertPaletteStats(_, _, _, _)
convertPaletteStats(data, pal, i, colorStats) ==
    IF i > Len(data) THEN colorStats
    ELSE LET px == paletteColor(data[i], pal)
         IN  convertPaletteStats(data, pal, i + 1,
                                 countColor(<<px[1], px[2], px[3]>>, colorStats))

\* the colorStats of handlePalette from pixel i on
RECURSIVE handlePaletteCounts(_, _, _, _, _)
handlePaletteCounts(data, pal, collectStats, i, colorStats) ==
    IF i > Len(data) THEN colorStats
    ELSE LET px == paletteColor(data[i], pal)
         IN  handlePaletteCounts(data, pal, collectStats, i + 1,
                                 IF collectStats
                                 THEN countInWorker(<<px[1], px[2], px[3]>>, colorStats)
                                 ELSE colorStats)

\* colorStats of the worker's answer: options.collectStats ? colorStats : undefined
handlePaletteStats(data, pal, collectStats) ==
    [defined |-> collectStats,
     counts |-> IF collectStats
                THEN handlePaletteCounts(data, pal, collectStats, 1, EmptyStats)
                ELSE EmptyStats]

InitPalette ==
    /\ Constructed
    /\ natural = LoadedSize
    /\ config = NoConfig
    /\ sync = NoSync
    /\ \E d \in PaletteBuffers(MaxPalettePixels) \ {<<>>} :
       \E p \in PalettesUpTo(MaxActivePaletteLen) \ {<<>>} :
       \E collectStats \in BOOLEAN :
           pure = [fn |-> "palette", data |-> d, palette |-> p, sync |-> <<>>, worker |-> <<>>,
                   again |-> <<>>,
                   collectStats |-> collectStats,
                   syncStats |-> [defined |-> FALSE, counts |-> EmptyStats],
                   workerStats |-> [defined |-> FALSE, counts |-> EmptyStats]]

\* the synchronous pipeline converts the buffer with the palette
SyncConvertPalette ==
    /\ pure.sync = <<>>
    /\ pure' = [pure EXCEPT !.sync = convertPalette(pure.data, pure.palette),
                            !.syncStats =
                                [defined |-> TRUE,
                                 counts |-> convertPaletteStats(pure.data, pure.palette,
                                                                1, EmptyStats)]]
    /\ UNCHANGED <<pipeline, config, sync>>

\* the worker converts the same buffer with the same palette
WorkerConvertPalette ==
    /\ pure.worker = <<>>
    /\ pure' = [pure EXCEPT !.worker = handlePaletteData(pure.data, pure.palette),
                            !.workerStats = handlePaletteStats(pure.data, pure.palette,
                                                               pure.collectStats)]
    /\ UNCHANGED <<pipeline, config, sync>>

\* the synchronous pipeline converts its result once more, the palette kept
SyncConvertPaletteAgain ==
    /\ pure.sync # <<>>
    /\ pure.again = <<>>
    /\ pure' = [pure EXCEPT !.again = convertPalette(pure.sync, pure.palette)]
    /\ UNCHANGED <<pipeline, config, sync>>

NextPalette == SyncConvertPalette \/ WorkerConvertPalette \/ SyncConvertPaletteAgain

SpecPalette == InitPalette /\ [][NextPalette]_vars

(***************************************************************************)
(* extractPaletteFromImageData (color-utils.ts).  The color map is the     *)
(* sequence of its entries in insertion order.                             *)
(***************************************************************************)
\* Math.round(ch / 8) * 8
quantized(ch) == round(ch, 8) * 8

colorKey(px) == <<quantized(px[1]), quantized(px[2]), quantized(px[3])>>

\* Math.max(1, Math.floor(imageData.length / 4 / 10000)), data a sequence of pixels
strideOf(data) == IF Len(data) \div 10000 > 1 THEN Len(data) \div 10000 ELSE 1

blend_Forgetful(entry, px) ==
    LET count == entry.count + 1
    IN  [key |-> entry.key, count |-> count,
         color |-> <<round(entry.color[1] + px[1], count + 1),
                     round(entry.color[2] + px[2], count + 1),
                     round(entry.color[3] + px[3], count + 1)>>]

\* an entry met again: count++, then each channel is blended with the pixel
blend(entry, px) ==
    LET count == entry.count + 1
    IN  [key |-> entry.key, count |-> count,
         color |-> <<round(entry.color[1] * count + px[1], count + 1),
                     round(entry.color[2] * count + px[2], count + 1),
                     round(entry.color[3] * count + px[3], count + 1)>>]

RECURSIVE countPixels_AnyAlpha(_, _, _, _)
countPixels_AnyAlpha(data, i, stride, colorMap) ==
    IF i > Len(data) THEN colorMap
    ELSE LET px == data[i]
             has == {k \in DOMAIN colorMap : colorMap[k].key = colorKey(px)}
         IN  IF has # {}
             THEN LET k == CHOOSE k \in has : TRUE
                  IN  countPixels_AnyAlpha(data, i + stride, stride,
                                           [colorMap EXCEPT ![k] = blend(@, px)])
             ELSE countPixels_AnyAlpha(data, i + stride, stride,
                                       Append(colorMap,
                                              [key |-> colorKey(px), count |-> 1,
                                               color |-> <<px[1], px[2], px[3]>>]))

\* the loop over the pixels from pixel i on: pixels of alpha < 128 are skipped
RECURSIVE countPixels(_, _, _, _)
countPixels(data, i, stride, colorMap) ==
    IF i > Len(data) THEN colorMap
    ELSE IF data[i][4] < 128 THEN countPixels(data, i + stride, stride, colorMap)
    ELSE LET px == data[i]
             has == {k \in DOMAIN colorMap : colorMap[k].key = colorKey(px)}
         IN  IF has # {}
             THEN LET k == CHOOSE k \in has : TRUE
                  IN  countPixels(data, i + stride, stride,
                                  [colorMap EXCEPT ![k] = blend(@, px)])
             ELSE countPixels(data, i + stride, stride,
                              Append(colorMap,
                                     [key |-> colorKey(px), count |-> 1,
                                      color |-> <<px[1], px[2], px[3]>>]))

\* sort((a, b) => b.count - a.count): by count, the larger first; the sort is
\* stable, entries of equal count keep their order
RECURSIVE sortByCount(_)
sortByCount(entries) ==
    IF entries = <<>> THEN <<>>
    ELSE LET first == CHOOSE k \in DOMAIN entries :
                          /\ \A j \in DOMAIN entries : entries[j].count <= entries[k].count
                          /\ \A j \in 1..(k - 1) : entries[j].count < entries[k].count
             rest  == [j \in 1..(Len(entries) - 1) |->
                          IF j < first THEN entries[j] ELSE entries[j + 1]]
         IN  <<entries[first].color>> \o sortByCount(rest)

\* similarityThreshold = 25, against colorSim as the sum of squares
similarityThreshold == 25

RECURSIVE deduplicate_Every(_, _, _, _)
deduplicate_Every(sortedColors, i, numColors, result) ==
    IF i > Len(sortedColors) \/ Len(result) >= numColors THEN result
    ELSE LET color == sortedColors[i]
             isTooSimilar == result # <<>> /\ \A k \in DOMAIN result :
                 colorSim(color, result[k]) < similarityThreshold * similarityThreshold
         IN  deduplicate_Every(sortedColors, i + 1, numColors,
                               IF isTooSimilar THEN result ELSE Append(result, color))

\* the first loop over sortedColors from entry i on: a color closer than the
\* threshold to one already taken is left out
RECURSIVE deduplicate(_, _, _, _)
deduplicate(sortedColors, i, numColors, result) ==
    IF i > Len(sortedColors) \/ Len(result) >= numColors THEN result
    ELSE LET color == sortedColors[i]
             isTooSimilar == \E k \in DOMAIN result :
                 colorSim(color, result[k]) < similarityThreshold * similarityThreshold
         IN  deduplicate(sortedColors, i + 1, numColors,
                         IF isTooSimilar THEN result ELSE Append(result, color))

fillUp_None(sortedColors, i, numColors, result) == result

RECURSIVE fillUp_Unchecked(_, _, _, _)
fillUp_Unchecked(sortedColors, i, numColors, result) ==
    IF i > Len(sortedColors) \/ Len(result) >= numColors THEN result
    ELSE fillUp_Unchecked(sortedColors, i + 1, numColors, Append(result, sortedColors[i]))

\* the second loop: colors not yet taken fill the result up to numColors
RECURSIVE fillUp(_, _, _, _)
fillUp(sortedColors, i, numColors, result) ==
    IF i > Len(sortedColors) \/ Len(result) >= numColors THEN result
    ELSE LET color == sortedColors[i]
             taken == \E k \in DOMAIN result : result[k] = color
         IN  fillUp(sortedColors, i + 1, numColors,
                    IF taken THEN result ELSE Append(result, color))

extractPaletteFromImageData(imageData, numColors) ==
    LET sortedColors == sortByCount(countPixels(imageData, 1, strideOf(imageData), <<>>))
        result       == deduplicate(sortedColors, 1, numColors, <<>>)
    IN  IF Len(result) < numColors /\ Len(sortedColors) > Len(result)
        THEN fillUp(sortedColors, 1, numColors, result)
        ELSE result

\* the pixels a buffer of SpecExtract has at most
MaxExtractPixels == 3

\* the pixels tried: two colors of one bucket, a color of the next bucket
\* that is closer than the threshold, a color at the threshold from the
\* first one, and a far color, each at the two alpha values around 128
ExtractPixels ==
    {<<c[1], c[2], c[3], a>> :
        c \in {<<200, 100, 7>>, <<203, 100, 7>>, <<205, 100, 7>>, <<225, 100, 7>>,
               <<0, 0, 0>>},
        a \in {127, 128}}

RECURSIVE ExtractBuffers(_)
ExtractBuffers(n) ==
    IF n = 0 THEN {<<>>}
    ELSE ExtractBuffers(n - 1)
           \cup {Append(d, x) : d \in {b \in ExtractBuffers(n - 1) : Len(b) = n - 1},
                                x \in ExtractPixels}

InitExtract ==
    /\ Constructed
    /\ natural = LoadedSize
    /\ config = NoConfig
    /\ sync = NoSync
    /\ \E d \in ExtractBuffers(MaxExtractPixels) : \E numColors \in 0..MaxExtractPixels :
           pure = [fn |-> "extract", imageData |-> d, numColors |-> numColors,
                   done |-> FALSE, out |-> <<>>]

ExtractPalette ==
    /\ ~pure.done
    /\ pure' = [pure EXCEPT !.done = TRUE,
                            !.out = extractPaletteFromImageData(pure.imageData, pure.numColors)]
    /\ UNCHANGED <<pipeline, config, sync>>

NextExtract == ExtractPalette

SpecExtract == InitExtract /\ [][NextExtract]_vars

(***************************************************************************)
(* pixelate: PixelIt.pixelate of the synchronous pipeline and              *)
(* handlePixelate of the worker.  Both draw the surface reduced and draw   *)
(* the reduced image back at full size without smoothing, so every pixel   *)
(* of the result copies one pixel of the reduced image.  The two axes are  *)
(* treated alike; a result is described along one of them, by the column   *)
(* of the reduced image each column of the result copies.                  *)
(***************************************************************************)
\* widths of the surfaces tried, and scales in hundredths
PixelateWidths == {10, 40, 55, 100}
PixelateScales == {8, 10, 25, 50}

\* which source pixel a drawImage without smoothing copies is left to the
\* browser: the one under the center of the destination pixel, or the one
\* under its left edge
Samplings == {"center", "edge"}

\* the column copied into column x of a surface of the given width, from a
\* source rectangle num / den wide
sourceColumn(x, num, den, width, sampling) ==
    IF sampling = "center"
    THEN ((2 * x + 1) * num) \div (2 * width * den)
    ELSE (x * num) \div (width * den)

NoColumns == [done |-> FALSE, failed |-> FALSE, columns |-> <<>>]

\* PixelIt.pixelate: the source rectangle is width * scale wide, a fraction
PixelIt_pixelateColumns(width, s, sampling) ==
    [done |-> TRUE, failed |-> FALSE,
     columns |-> [x \in 1..width |-> sourceColumn(x - 1, width * s, 100, width, sampling)]]

\* handlePixelate: the reduced canvas is Math.floor(width * scale) wide;
\* drawing from a canvas without pixels throws and the worker posts an error
handlePixelateColumns(width, s, sampling) ==
    LET r == [imageData |-> [w |-> width, h |-> width], scale |-> s]
    IN  IF pixelateThrows(r)
        THEN [done |-> TRUE, failed |-> TRUE, columns |-> <<>>]
        ELSE [done |-> TRUE, failed |-> FALSE,
              columns |-> [x \in 1..width |->
                              sourceColumn(x - 1, scaledSize(r).w, 1, width, sampling)]]

InitPixelate ==
    /\ Constructed
    /\ natural = LoadedSize
    /\ config = NoConfig
    /\ sync = NoSync
    /\ \E width \in PixelateWidths : \E s \in PixelateScales : \E sampling \in Samplings :
           pure = [fn |-> "pixelate", width |-> width, scale |-> s, sampling |-> sampling,
                   sync |-> NoColumns, worker |-> NoColumns]

\* the synchronous pipeline pixelates the surface
SyncPixelate ==
    /\ ~pure.sync.done
    /\ pure' = [pure EXCEPT !.sync = PixelIt_pixelateColumns(pure.width, pure.scale, pure.sampling)]
    /\ UNCHANGED <<pipeline, config, sync>>

\* the worker pixelates the same surface
WorkerPixelate ==
    /\ ~pure.worker.done
    /\ pure' = [pure EXCEPT !.worker = handlePixelateColumns(pure.width, pure.scale, pure.sampling)]
    /\ UNCHANGED <<pipeline, config, sync>>

NextPixelate == SyncPixelate \/ WorkerPixelate

SpecPixelate == InitPixelate /\ [][NextPixelate]_vars

(***************************************************************************)
(* The import of a palette from a file of hex colors (demo.ts).  A line of *)
(* the file is a sequence of characters; the page keeps the custom         *)
(* palettes and their names in localStorage and adds them to the pipeline. *)
(***************************************************************************)
\* the imports of a behaviour of SpecImport, and the lines of a file
MaxImports == 2
MaxLines == 2

\* the lines tried: #RGB followed by a blank, #RRGGBB in both cases, RRGGBB,
\* an empty line, a comment and a line that is no color
Lines ==
    { <<"#", "F", "0", "0", " ">>,
      <<"#", "f", "f", "0", "0", "0", "0">>,
      <<"#", "0", "0", "F", "F", "0", "0">>,
      <<"0", "0", "f", "f", "0", "0">>,
      <<>>,
      <<"/", "/", "f", "f", "0", "0", "0", "0">>,
      <<"#", "f", "0">> }

RECURSIVE Files(_)
Files(n) ==
    IF n = 0 THEN {<<>>}
    ELSE Files(n - 1) \cup {Append(f, l) : f \in {g \in Files(n - 1) : Len(g) = n - 1},
                                          l \in Lines}

\* palette names made from the file's name
FileNames == {"Sunset", "Forest"}

HexDigits ==
    <<"0", "1", "2", "3", "4", "5", "6", "7", "8", "9", "a", "b", "c", "d", "e", "f">>
UpperHexDigits ==
    <<"0", "1", "2", "3", "4", "5", "6", "7", "8", "9", "A", "B", "C", "D", "E", "F">>

\* [0-9A-Fa-f]
isHexDigit(c) == \E i \in 1..16 : c = HexDigits[i] \/ c = UpperHexDigits[i]

\* the value parseInt(.., 16) gives a digit
hexValue(c) == (CHOOSE i \in 1..16 : c = HexDigits[i] \/ c = UpperHexDigits[i]) - 1

\* line.trim(), for the blanks of the lines tried
RECURSIVE trim(_)
trim(line) ==
    IF line # <<>> /\ Head(line) = " " THEN trim(Tail(line))
    ELSE IF line # <<>> /\ line[Len(line)] = " " THEN trim(SubSeq(line, 1, Len(line) - 1))
    ELSE line

startsWith(line, prefix) ==
    Len(line) >= Len(prefix) /\ SubSeq(line, 1, Len(prefix)) = prefix

allHex(line, from) == \A i \in from..Len(line) : isHexDigit(line[i])

\* the filter of the import: empty lines and comments are skipped, #RRGGBB,
\* RRGGBB and #RGB are kept
isHexColor(line) ==
    IF \/ line = <<>>
       \/ startsWith(line, <<"/", "/">>)
       \/ startsWith(line, <<"#", "!">>)
       \/ startsWith(line, <<"/", "*">>)
    THEN FALSE
    ELSE \/ (Len(line) = 7 /\ line[1] = "#" /\ allHex(line, 2))
         \/ (Len(line) = 6 /\ allHex(line, 1))
         \/ (Len(line) = 4 /\ line[1] = "#" /\ allHex(line, 2))

\* the map of the import: every kept line becomes #RRGGBB
normalize(line) ==
    LET l == IF ~startsWith(line, <<"#">>) THEN <<"#">> \o line ELSE line
    IN  IF Len(l) = 4 THEN <<"#", l[2], l[2], l[3], l[3], l[4], l[4]>> ELSE l

hexToRgb(hex) ==
    <<16 * hexValue(hex[2]) + hexValue(hex[3]),
      16 * hexValue(hex[4]) + hexValue(hex[5]),
      16 * hexValue(hex[6]) + hexValue(hex[7])>>

\* the colors of a file: its lines trimmed, filtered, normalized, converted
RECURSIVE rgbColors(_)
rgbColors(file) ==
    IF file = <<>> THEN <<>>
    ELSE LET line == trim(Head(file))
         IN  IF isHexColor(line)
             THEN <<hexToRgb(normalize(line))>> \o rgbColors(Tail(file))
             ELSE rgbColors(Tail(file))

isDuplicate_Never(existingPalettes, colors) == FALSE

\* existingPalettes.some(palette => JSON.stringify(palette) === newPaletteString)
isDuplicate(existingPalettes, colors) ==
    \E i \in DOMAIN existingPalettes : existingPalettes[i] = colors

\* reader.onload of the import, up to px.addPalette
importPalette(st, file, paletteName) ==
    LET colors == rgbColors(file)
    IN  IF file = <<>> THEN st
        ELSE IF Len(colors) = 0 THEN [st EXCEPT !.alerts = @ + 1]
        ELSE IF isDuplicate(st.customPalettes, colors) THEN [st EXCEPT !.alerts = @ + 1]
        ELSE [st EXCEPT !.customPalettes = Append(@, colors),
                        !.customPaletteNames = Append(@, paletteName),
                        !.availablePalettes = addPalette(st, colors).availablePalettes]

\* the click on 'clearcustompalettes': both lists are emptied and the page
\* is loaded again, which builds the pipeline anew
clearCustomPalettes(st) ==
    [st EXCEPT !.customPalettes = <<>>, !.customPaletteNames = <<>>,
               !.availablePalettes = <<DEFAULT_PALETTE>>]

InitImport ==
    /\ Constructed
    /\ natural = LoadedSize
    /\ config = NoConfig
    /\ sync = NoSync
    /\ pure = [fn |-> "import", customPalettes |-> <<>>, customPaletteNames |-> <<>>,
               availablePalettes |-> <<DEFAULT_PALETTE>>, alerts |-> 0,
               n |-> 0, file |-> <<>>]

ImportPalette ==
    /\ pure.n < MaxImports
    /\ \E file \in Files(MaxLines) : \E paletteName \in FileNames :
          pure' = [importPalette(pure, file, paletteName)
                      EXCEPT !.n = pure.n + 1, !.file = file]
    /\ UNCHANGED <<pipeline, config, sync>>

ClearCustomPalettes ==
    /\ pure.customPalettes # <<>>
    /\ pure' = clearCustomPalettes(pure)
    /\ UNCHANGED <<pipeline, config, sync>>

NextImport == ImportPalette \/ ClearCustomPalettes

SpecImport == InitImport /\ [][NextImport]_vars

(***************************************************************************)
(* The canvas controls (canvas-controls.ts): the signals the controls      *)
(* set, and applyChanges, which passes them to applyEffects unless an      *)
(* earlier applyChanges is still processing.                               *)
(***************************************************************************)
\* the control events of a behaviour of SpecControls
MaxEvents == 3

\* values the scale slider, the palette options and the size buttons give
ControlScales == {8, 20}
ControlPalettes == {0, 1}
SizePercentages == {50}

\* the options applyChanges passes to applyEffects: the signals as they are
controlOptions(st) ==
    [scale |-> st.scale, grayscale |-> st.grayscale, applyPalette |-> st.usePalette,
     paletteIndex |-> st.paletteIndex, maxWidth |-> st.maxWidth, maxHeight |-> st.maxHeight]

\* applyChanges up to its await: nothing is done while isProcessing() holds
applyChanges(st) ==
    IF st.isProcessing THEN st
    ELSE [st EXCEPT !.isProcessing = TRUE, !.called = TRUE, !.applied = controlOptions(st)]

\* calculateAndApplySizing, the image being loaded; 0 stands for undefined
calculateAndApplySizing(st, percentage) ==
    IF percentage = 0
    THEN applyChanges([st EXCEPT !.maxWidth = 0, !.maxHeight = 0])
    ELSE applyChanges([st EXCEPT !.maxWidth = (LoadedSize.w * percentage) \div 100,
                                 !.maxHeight = (LoadedSize.h * percentage) \div 100])

\* a control event, counted
Event(st) == [st EXCEPT !.n = @ + 1]

InitControls ==
    /\ Constructed
    /\ natural = LoadedSize
    /\ config = NoConfig
    /\ sync = NoSync
    /\ pure = [fn |-> "controls", scale |-> 8, grayscale |-> FALSE, usePalette |-> TRUE,
               paletteIndex |-> 0, sizePercentage |-> 0, maxWidth |-> 0, maxHeight |-> 0,
               isProcessing |-> FALSE, called |-> FALSE, n |-> 0,
               applied |-> [scale |-> 8, grayscale |-> FALSE, applyPalette |-> TRUE,
                            paletteIndex |-> 0, maxWidth |-> 0, maxHeight |-> 0]]

\* 'input' on the scale slider
ScaleInput ==
    /\ pure.n < MaxEvents
    /\ \E v \in ControlScales :
          pure' = applyChanges(Event([pure EXCEPT !.scale = v]))
    /\ UNCHANGED <<pipeline, config, sync>>

\* 'change' on the grayscale checkbox
GrayscaleChange ==
    /\ pure.n < MaxEvents
    /\ pure' = applyChanges(Event([pure EXCEPT !.grayscale = ~@]))
    /\ UNCHANGED <<pipeline, config, sync>>

\* 'change' on the palette checkbox
PaletteCheckChange ==
    /\ pure.n < MaxEvents
    /\ pure' = applyChanges(Event([pure EXCEPT !.usePalette = ~@]))
    /\ UNCHANGED <<pipeline, config, sync>>

\* 'click' on a palette option
PaletteOptionClick ==
    /\ pure.n < MaxEvents
    /\ \E index \in ControlPalettes :
          pure' = applyChanges(Event([pure EXCEPT !.paletteIndex = index]))
    /\ UNCHANGED <<pipeline, config, sync>>

\* 'click' on a size button: on the active button it removes the size
SizeButtonClick ==
    /\ pure.n < MaxEvents
    /\ \E percentage \in SizePercentages :
          LET isAlreadyActive == pure.sizePercentage = percentage
              size == IF isAlreadyActive THEN 0 ELSE percentage
          IN  pure' = calculateAndApplySizing(Event([pure EXCEPT !.sizePercentage = size]),
                                              size)
    /\ UNCHANGED <<pipeline, config, sync>>

\* the await of applyChanges is over: the finally block runs
EffectsSettle ==
    /\ pure.isProcessing
    /\ pure' = [pure EXCEPT !.isProcessing = FALSE]
    /\ UNCHANGED <<pipeline, config, sync>>

NextControls ==
    \/ ScaleInput
    \/ GrayscaleChange
    \/ PaletteCheckChange
    \/ PaletteOptionClick
    \/ SizeButtonClick
    \/ EffectsSettle

SpecControls == InitControls /\ [][NextControls]_vars

(***************************************************************************)
(* The configuration of a pipeline: PixelIt (pixelate-worker.ts) and       *)
(* PixelItWorker (pixelit-worker.ts).  The methods of PixelItWorker are    *)
(* the operators of the pipeline above, applied to the configuration; the  *)
(* methods of PixelIt that differ carry the name of their class.           *)
(***************************************************************************)
\* the calls of configuration methods in a behaviour, after the constructor
MaxConfigCalls == 2

PixelIt_setScale(st, v) ==
    [st EXCEPT !.scale = IF truthy(v) /\ greaterThan(v, 0) /\ atMost(v, MaxScale)
                         THEN timesHundredth(v)
                         ELSE st.scale]

\* this.maxWidth = width || this.maxWidth
PixelIt_setMaxWidth(st, v) == [st EXCEPT !.maxWidth = IF v # 0 THEN v ELSE st.maxWidth]

PixelIt_setMaxHeight(st, v) == [st EXCEPT !.maxHeight = IF v # 0 THEN v ELSE st.maxHeight]

PixelIt_setPaletteByIndex(st, index) ==
    IF index >= 0 /\ index < Len(st.availablePalettes)
    THEN [st EXCEPT !.currentPaletteIndex = index,
                    !.palette = st.availablePalettes[index + 1]]
    ELSE st

PixelIt_addPalette(st, pal) == [st EXCEPT !.availablePalettes = Append(@, pal)]

\* img.onload of setPaletteFromURL: the palette extracted from the pixels of
\* the loaded image becomes the palette
PixelIt_setPaletteFromURL(st, imageData, numColors) ==
    [st EXCEPT !.palette = extractPaletteFromImageData(imageData, numColors)]

\* the options PixelIt.applyEffects applies before it draws
PixelIt_applyOptions(st, o) ==
    LET s1 == IF truthy(o.scale) THEN PixelIt_setScale(st, o.scale) ELSE st
        s3 == IF o.palette # NoPalette THEN setPalette(s1, o.palette[2])
              ELSE IF o.paletteIndex # Undefined
                   THEN PixelIt_setPaletteByIndex(s1, o.paletteIndex[2])
                   ELSE s1
        s4 == IF o.maxWidth # 0 THEN PixelIt_setMaxWidth(s3, o.maxWidth) ELSE s3
    IN  IF o.maxHeight # 0 THEN PixelIt_setMaxHeight(s4, o.maxHeight) ELSE s4

\* the fields the two constructors set from config before their last line
configured(class, cfg) ==
    LET given == cfg.palette # NoPalette
        added == given /\ cfg.palette[2] # DEFAULT_PALETTE
    IN  [class |-> class,
         scale |-> IF truthy(cfg.scale) /\ greaterThan(cfg.scale, 0)
                                        /\ atMost(cfg.scale, MaxScale)
                   THEN timesHundredth(cfg.scale)
                   ELSE DefaultScale,
         palette |-> IF given THEN cfg.palette[2] ELSE DEFAULT_PALETTE,
         availablePalettes |-> IF added THEN <<DEFAULT_PALETTE, cfg.palette[2]>>
                               ELSE <<DEFAULT_PALETTE>>,
         currentPaletteIndex |-> IF added THEN 1 ELSE 0,
         maxHeight |-> cfg.maxHeight,
         maxWidth |-> cfg.maxWidth,
         colorStatsEnabled |-> FALSE]

\* new PixelItWorker(cfg): the last line is this.setScale(8).resizeImage().draw()
PixelItWorker_constructor(cfg) == setScale(configured("PixelItWorker", cfg), Num(DefaultScale))

\* new PixelIt(cfg): the last line is this.setScale(8).resizeImage().draw()
PixelIt_constructor(cfg) == PixelIt_setScale(configured("PixelIt", cfg), Num(DefaultScale))

\* what the page passes to the constructor
ConfigArgs ==
    [scale : {Undefined, Num(25), Num(51)},
     palette : {NoPalette, Given(DEFAULT_PALETTE), Given(PalB), Given(<<>>)},
     maxWidth : {0}, maxHeight : {0}]

\* arguments of setScale: integers in and out of range, and doubles that are
\* no integers
ConfigScaleArgs ==
    {Num(-5), Num(0), Num(1), Num(50), Num(51), NaN, Infinity, MIN_VALUE}

\* a third palette of the page
PalC == << <<5, 5, 0>> >>

\* arguments of setPaletteByIndex, in and out of bounds
IndexArgs == {-1, 0, 1, 2, 3}

\* the pixels of the images setPaletteFromURL loads: an image of one opaque
\* color, one of two close colors and a far one, and one with no pixel of
\* alpha 128 or more
Images ==
    { << <<200, 100, 7, 255>> >>,
      << <<200, 100, 7, 255>>, <<203, 100, 7, 255>>, <<0, 0, 0, 128>> >>,
      << <<200, 100, 7, 0>>, <<0, 0, 0, 127>> >> }

\* the number of colors asked of setPaletteFromURL: one, and the default
NumColorsArgs == {1, 16}

\* the options the page passes to applyEffects, as far as the configuration
\* goes
ConfigEffectsOptions ==
    [scale : {Undefined, Num(25), MIN_VALUE}, debug : {"unset"},
     palette : {NoPalette, Given(PalB)}, paletteIndex : {Undefined, Num(1), Num(3)},
     grayscale : {FALSE}, applyPalette : {FALSE},
     maxWidth : {0, 40}, maxHeight : {0}]

\* the call that made the configuration what it is (last), the call before
\* it (prev) and the number of calls (n) are kept for the properties
NoCall == [op |-> "none", arg |-> 0]

InitConfig ==
    /\ Constructed
    /\ natural = LoadedSize
    /\ pure = [fn |-> "none"]
    /\ sync = NoSync
    /\ \E cfg \in ConfigArgs :
       \E st \in {PixelIt_constructor(cfg), PixelItWorker_constructor(cfg)} :
           config = st @@ [n |-> 0, prev |-> NoCall,
                           last |-> [op |-> "constructor", arg |-> cfg]]

\* the method of the class of the pipeline
Method(ofWorker, ofPixelIt) == IF config.class = "PixelIt" THEN ofPixelIt ELSE ofWorker

\* a call of a method with argument arg that leaves the configuration st
ConfigCall(op, arg, st) ==
    /\ config.n < MaxConfigCalls
    /\ config' = [st EXCEPT !.n = @ + 1, !.prev = config.last,
                            !.last = [op |-> op, arg |-> arg]]
    /\ UNCHANGED <<pipeline, pure, sync>>

ConfigSetScale ==
    \E v \in ConfigScaleArgs :
        ConfigCall("setScale", v, Method(setScale(config, v), PixelIt_setScale(config, v)))

ConfigSetPalette ==
    \E p \in {<<>>, DEFAULT_PALETTE, PalB} :
        ConfigCall("setPalette", p, setPalette(config, p))

ConfigSetPaletteByIndex ==
    \E i \in IndexArgs :
        ConfigCall("setPaletteByIndex", i,
                   Method(setPaletteByIndex(config, i), PixelIt_setPaletteByIndex(config, i)))

ConfigAddPalette ==
    \E p \in {DEFAULT_PALETTE, PalB, PalC} :
        ConfigCall("addPalette", p, Method(addPalette(config, p), PixelIt_addPalette(config, p)))

\* arguments of setMaxWidth / setMaxHeight: a negative size, a falsy one (0,
\* NaN and undefined, which the fields hold as 0) and a positive one
SizeArgs == {-5, 0, 40}

ConfigSetMaxWidth ==
    \E v \in SizeArgs :
        ConfigCall("setMaxWidth", v, Method(setMaxWidth(config, v), PixelIt_setMaxWidth(config, v)))

ConfigSetMaxHeight ==
    \E v \in SizeArgs :
        ConfigCall("setMaxHeight", v,
                   Method(setMaxHeight(config, v), PixelIt_setMaxHeight(config, v)))

\* the image of setPaletteFromURL loads; PixelItWorker has no such method
ConfigSetPaletteFromURL ==
    \E imageData \in Images : \E numColors \in NumColorsArgs :
        /\ config.class = "PixelIt"
        /\ ConfigCall("setPaletteFromURL", [imageData |-> imageData, numColors |-> numColors],
                      PixelIt_setPaletteFromURL(config, imageData, numColors))

\* applyEffects, whose operations after the options (draw, pixelate, ...)
\* leave the configuration as it is
ConfigApplyEffects ==
    \E o \in ConfigEffectsOptions :
        ConfigCall("applyEffects", o, Method(applyOptions(config, o), PixelIt_applyOptions(config, o)))

NextConfig ==
    \/ ConfigSetScale
    \/ ConfigSetPalette
    \/ ConfigSetPaletteByIndex
    \/ ConfigAddPalette
    \/ ConfigSetMaxWidth
    \/ ConfigSetMaxHeight
    \/ ConfigSetPaletteFromURL
    \/ ConfigApplyEffects

SpecConfig == InitConfig /\ [][NextConfig]_vars

(***************************************************************************)
(* resizeImage of the two classes, as the size it gives the canvas.        *)
(***************************************************************************)
\* the sides and the constraints tried go from 0 to MaxSide, next to the
\* 100 x 50 source with the constraints 40 and 10; on larger sizes a double
\* product can fall just below the integer the fraction equals (100 x 50
\* with the constraints 7 and 3 is given the width 5, the fraction being 6)
MaxSide == 4

\* PixelIt.resizeImage: the same two stages as PixelItWorker.resizeImage
PixelIt_resizeSize(nat, mw, mh) ==
    LET first  == mw # 0 /\ nat.w > mw
        w1     == IF first THEN mw ELSE nat.w
        hn     == IF first THEN nat.h * mw ELSE nat.h
        hd     == IF first THEN nat.w ELSE 1
        second == mh # 0 /\ hn > mh * hd
    IN  IF second
        THEN [w |-> (w1 * mh * hd) \div hn, h |-> mh]
        ELSE [w |-> w1, h |-> hn \div hd]

\* the natural sizes of the sources: all sides up to MaxSide, loaded or not
NaturalSizes == [w : 0..MaxSide, h : 0..MaxSide] \cup {LoadedSize}

InitResize ==
    /\ Constructed
    /\ natural = LoadedSize
    /\ config = NoConfig
    /\ sync = NoSync
    /\ \E nat \in NaturalSizes :
       \E mw \in 0..MaxSide \cup {40} : \E mh \in 0..MaxSide \cup {10} :
           pure = [fn |-> "resize", natural |-> nat, maxWidth |-> mw, maxHeight |-> mh,
                   sync |-> <<>>, worker |-> <<>>]

\* resizeImage of the synchronous pipeline sizes the canvas
SyncResizeImage ==
    /\ pure.sync = <<>>
    /\ pure' = [pure EXCEPT !.sync =
                    <<PixelIt_resizeSize(pure.natural, pure.maxWidth, pure.maxHeight)>>]
    /\ UNCHANGED <<pipeline, config, sync>>

\* resizeImage of the offloaded pipeline sizes the canvas
WorkerResizeImage ==
    /\ pure.worker = <<>>
    /\ pure' = [pure EXCEPT !.worker =
                    <<resizeSize(pure.natural, pure.maxWidth, pure.maxHeight)>>]
    /\ UNCHANGED <<pipeline, config, sync>>

NextResize == SyncResizeImage \/ WorkerResizeImage

SpecResize == InitResize /\ [][NextResize]_vars

(***************************************************************************)
(* Calls that run to their end before they return: the constructors of     *)
(* the two classes and the methods of PixelIt.  A call returns, returns    *)
(* after console.error (reported), or throws (threw).  The source drawfrom *)
(* is no element ("missing": neither config.from nor #pixelitimg), an      *)
(* image that has not loaded, or a loaded one.                             *)
(***************************************************************************)
\* the calls made on a pipeline after its construction
MaxSyncCalls == 2

Sources == {"missing", "unloaded", "loaded"}

\* drawfrom.naturalWidth / naturalHeight
naturalSize(drawfrom) == IF drawfrom = "loaded" THEN LoadedSize ELSE NoSize

\* a canvas of the given size, just painted or cleared
Surface(size) == [w |-> size.w, h |-> size.h, ops |-> <<>>]

\* a canvas element as the document creates it
NewCanvas == Surface([w |-> 300, h |-> 150])

\* a statement throws: the call ends there
Throw(st) == [st EXCEPT !.threw = TRUE]

\* the next call of a chain runs unless the one before threw
Then(st, Op(_)) == IF st.threw THEN st ELSE Op(st)

PixelIt_draw(st) ==
    IF st.drawfrom = "missing"
    THEN [st EXCEPT !.reported = TRUE]
    ELSE [st EXCEPT !.canvas = Surface(naturalSize(st.drawfrom))]

\* this.drawfrom.naturalWidth throws a TypeError when drawfrom is null
PixelIt_resizeImage(st) ==
    IF st.drawfrom = "missing"
    THEN Throw(st)
    ELSE [st EXCEPT !.canvas = Surface(PixelIt_resizeSize(naturalSize(st.drawfrom),
                                                          st.maxWidth, st.maxHeight))]

\* ctx.drawImage(this.drawto, ...) throws InvalidStateError when the canvas
\* it draws from has a side of 0
PixelIt_pixelate(st) ==
    IF st.canvas.w = 0 \/ st.canvas.h = 0
    THEN Throw(st)
    ELSE [st EXCEPT !.canvas.ops = Append(@, "pixelate")]

PixelIt_convertGrayscale(st) ==
    IF getImageDataThrows(st.canvas)
    THEN Throw(st)
    ELSE [st EXCEPT !.canvas.ops = Append(@, "grayscale")]

\* every pixel is counted into a fresh record, which replaces endColorStats
PixelIt_convertPalette(st) ==
    IF getImageDataThrows(st.canvas)
    THEN Throw(st)
    ELSE [st EXCEPT !.canvas.ops = Append(@, "palette"),
                    !.endColorStats = [pass |-> st.n + 1,
                                       total |-> st.canvas.w * st.canvas.h]]

PixelIt_applyEffects(st, o) ==
    LET s5 == PixelIt_applyOptions(st, o)
        s6 == Then(PixelIt_draw(s5), PixelIt_pixelate)
        s7 == IF o.grayscale THEN Then(s6, PixelIt_convertGrayscale) ELSE s6
        s8 == IF o.applyPalette THEN Then(s7, PixelIt_convertPalette) ELSE s7
    IN  IF o.maxWidth # 0 \/ o.maxHeight # 0 THEN Then(s8, PixelIt_resizeImage) ELSE s8

PixelIt_setFromImgElement(st, elem) == [st EXCEPT !.drawfrom = elem]

\* a config that gives neither scale nor palette nor sizes
DefaultConfig == [scale |-> Undefined, palette |-> NoPalette, maxWidth |-> 0, maxHeight |-> 0]

\* what a constructor has set when it comes to its last line; a canvas is
\* created when there is none (drawto "missing")
fields(st, drawfrom, drawto) ==
    st @@ [drawfrom |-> drawfrom, canvas |-> NewCanvas, created |-> drawto = "missing",
           endColorStats |-> NoStats, reported |-> FALSE, threw |-> FALSE, n |-> 0]

\* new PixelIt({from, to}): hideFromImg tests drawfrom, and the last line is
\* this.setScale(8).resizeImage().draw()
PixelIt_new(drawfrom, drawto) ==
    Then(PixelIt_resizeImage(fields(PixelIt_constructor(DefaultConfig), drawfrom, drawto)),
         PixelIt_draw)

\* new PixelItWorker({from, to}): hideFromImg reads this.drawfrom.style, which
\* throws a TypeError when drawfrom is null; resizeImage and draw of the last
\* line size the canvas
PixelItWorker_new(drawfrom, drawto) ==
    LET st == fields(PixelItWorker_constructor(DefaultConfig), drawfrom, drawto)
    IN  IF drawfrom = "missing"
        THEN Throw(st)
        ELSE [st EXCEPT !.canvas = Surface(naturalSize(drawfrom))]

\* the options the page passes to PixelIt.applyEffects
SyncEffectsOptions ==
    [scale : {Undefined}, debug : {"unset"}, palette : {NoPalette},
     paletteIndex : {Undefined}, grayscale : BOOLEAN, applyPalette : BOOLEAN,
     maxWidth : {0, 40}, maxHeight : {0}]

\* before new: the class, and what the page has for source and surface
InitSync ==
    /\ Constructed
    /\ natural = LoadedSize
    /\ pure = [fn |-> "none"]
    /\ config = NoConfig
    /\ \E class \in {"PixelIt", "PixelItWorker"} :
       \E drawfrom \in Sources : \E drawto \in {"given", "missing"} :
           sync = [class |-> class, drawfrom |-> drawfrom, drawto |-> drawto,
                   constructed |-> FALSE, threw |-> FALSE, reported |-> FALSE,
                   op |-> "none"]

\* new PixelIt(config) / new PixelItWorker(config); no object is left when
\* the constructor throws
Construct ==
    /\ sync.op = "none"
    /\ LET st == IF sync.class = "PixelIt"
                 THEN PixelIt_new(sync.drawfrom, sync.drawto)
                 ELSE PixelItWorker_new(sync.drawfrom, sync.drawto)
       IN  sync' = st @@ [constructed |-> ~st.threw, op |-> "constructor"]
    /\ UNCHANGED <<pipeline, pure, config>>

\* the page calls method op of a PixelIt, which leaves it as st(this)
SyncCall(op, st(_)) ==
    /\ sync.constructed
    /\ sync.class = "PixelIt"
    /\ sync.n < MaxSyncCalls
    /\ sync' = [st([sync EXCEPT !.reported = FALSE, !.threw = FALSE])
                   EXCEPT !.n = @ + 1, !.op = op]
    /\ UNCHANGED <<pipeline, pure, config>>

PixelItDraw == SyncCall("draw", PixelIt_draw)

PixelItResizeImage == SyncCall("resizeImage", PixelIt_resizeImage)

PixelItPixelate == SyncCall("pixelate", PixelIt_pixelate)

PixelItConvertGrayscale == SyncCall("convertGrayscale", PixelIt_convertGrayscale)

PixelItConvertPalette == SyncCall("convertPalette", PixelIt_convertPalette)

PixelItApplyEffects ==
    \E o \in SyncEffectsOptions :
        LET applied(st) == PixelIt_applyEffects(st, o) IN SyncCall("applyEffects", applied)

PixelItSetFromImgElement ==
    \E elem \in Sources :
        LET set(st) == PixelIt_setFromImgElement(st, elem) IN SyncCall("setFromImgElement", set)

\* the source image finishes loading
SourceLoads ==
    /\ sync.constructed
    /\ sync.drawfrom = "unloaded"
    /\ sync' = [sync EXCEPT !.drawfrom = "loaded", !.op = "load"]
    /\ UNCHANGED <<pipeline, pure, config>>

NextSync ==
    \/ Construct
    \/ PixelItDraw
    \/ PixelItResizeImage
    \/ PixelItPixelate
    \/ PixelItConvertGrayscale
    \/ PixelItConvertPalette
    \/ PixelItApplyEffects
    \/ PixelItSetFromImgElement
    \/ SourceLoads

SpecSync == InitSync /\ [][NextSync]_vars

(***************************************************************************)
(* What the properties read from a state.                                  *)
(***************************************************************************)
OpKinds == {"pixelate", "grayscale", "palette"}

Conversions == {"grayscale", "palette"}

\* the pixelate / convertGrayscale / convertPalette calls made so far
OpIds == {i \in DOMAIN calls : calls[i].kind \in OpKinds}

\* the operations still in pendingOperations
Queued == {pendingOperations[i].id : i \in DOMAIN pendingOperations}

\* the operations posted to the worker whose answer has not been handled
Posted == {r.id : r \in toWorker} \cup {fromWorker[i].id : i \in DOMAIN fromWorker}

\* the operations that are over: their answer was handled, or their closure threw
Finished == OpIds \ (Queued \cup Posted)

\* the operations whose result was put on the surface
Written == {writes[i] : i \in DOMAIN writes} \cap OpIds

\* the operations the worker answered with an error, the answer handled
Failed == (Finished \cap resolved) \ Written

\* the operations whose closure threw when it was run: nothing was posted
\* and their promise stays pending
Thrown == Finished \ resolved

\* a conversion the page called right after it called pixelate()
AfterPixelate(r) ==
    /\ r.operation \in Conversions
    /\ r.op.eff = 0
    /\ r.id > 1
    /\ calls[r.id - 1] = [kind |-> "pixelate", eff |-> 0]

Last(seq) == seq[Len(seq)]

\* the buffer of request r is the result of operation id
BufferOf(r, id) == r.imageData.ops # <<>> /\ Last(r.imageData.ops) = id

(***************************************************************************)
(* C1.  pixelate() then a conversion, back-to-back.                        *)
(***************************************************************************)
\* C1 as stated: whenever the request of a conversion that was called right
\* after pixelate() has been posted, the buffer it carries is the result of
\* that pixelate, whatever the worker answered and whenever.
C1_AlwaysPixelated ==
    \A r \in toWorker : AfterPixelate(r) => BufferOf(r, r.id - 1)

\* C1 amended: the request of a conversion called right after pixelate() is
\* posted only once that pixelate is over, and it carries the pixelate's
\* result whenever the worker returned one; the pre-pixelation buffer is sent
\* only when the worker reported a failure for the pixelate or the pixelate
\* threw when it was started.
C1_PixelatedUnlessFailed ==
    \A r \in toWorker :
        AfterPixelate(r) =>
            /\ r.id - 1 \in Finished
            /\ BufferOf(r, r.id - 1) \/ r.id - 1 \in Failed \/ r.id - 1 \in Thrown

\* a conversion queued behind a pixelate in flight has been posted with the
\* pixelate's result
C1_Witness ==
    \E r \in toWorker :
        /\ AfterPixelate(r)
        /\ r.op.enq.busy
        /\ r.id - 1 \in Written
        /\ BufferOf(r, r.id - 1)

(***************************************************************************)
(* C2.  One request in flight.                                             *)
(***************************************************************************)
\* C2: at most one request has been posted to the worker without its answer
\* having been handled, so request N+1 is posted only after the answer to
\* request N was handled.
C2_SingleFlight ==
    /\ Cardinality(toWorker) + Len(fromWorker) <= 1
    /\ \A r \in toWorker : \A i \in OpIds : i < r.id => i \in Finished

\* a second request is in flight after the first was answered and handled,
\* the second having waited in the queue
C2_Witness ==
    \E r \in toWorker : \E i \in Written : i < r.id /\ r.op.enq.busy

(***************************************************************************)
(* C3.  The promise of an operation.                                       *)
(***************************************************************************)
\* C3: the promise of pixelate / convertGrayscale / convertPalette is
\* resolved only when the worker's answer for that operation has been handled:
\* never while the operation is queued or in flight.
C3_ResolvedAfterAnswer ==
    \A id \in resolved : id \notin Queued /\ id \notin Posted

(***************************************************************************)
(* C4.  The order of the results.                                          *)
(***************************************************************************)
\* C4: the results of the operations are written to the surface in the
\* order the operations were called.
C4_ResultsInCallOrder ==
    \A i, j \in DOMAIN writes :
        (i < j /\ writes[i] \in OpIds /\ writes[j] \in OpIds) => writes[i] < writes[j]

\* two results were written, the second of an operation called while the
\* queue was busy
C4_Witness ==
    \E i, j \in DOMAIN writes :
        /\ i < j
        /\ writes[i] \in OpIds
        /\ writes[j] \in OpIds
        /\ writes[i] # writes[j]
        /\ calls[writes[j]].kind # calls[writes[i]].kind

(***************************************************************************)
(* C5.  The promise of applyEffects.                                       *)
(***************************************************************************)
\* the operations applyEffects call e queued
OpsOf(e) == {i \in OpIds : calls[i].eff = e}

\* C5: when the promise of an applyEffects call has resolved, every operation
\* the call queued has had its result written back: none is queued or in flight.
C5_EffectsSettled ==
    \A e \in DOMAIN effects :
        effects[e].stage = "done" => OpsOf(e) \cap (Queued \cup Posted) = {}

(***************************************************************************)
(* C6.  The order of the writes of applyEffects.                           *)
(***************************************************************************)
Rank(kind) ==
    CASE kind = "draw" -> 1
      [] kind = "pixelate" -> 2
      [] kind = "grayscale" -> 3
      [] kind = "palette" -> 4
      [] kind = "resize" -> 5

\* C6: the writes of one applyEffects call reach the surface in the order
\* draw, pixelate result, grayscale result, palette result, resize redraw; the
\* resize redraw is the last of them.
C6_FixedOrder ==
    \A i, j \in DOMAIN writes :
        (i < j /\ calls[writes[i]].eff # 0 /\ calls[writes[i]].eff = calls[writes[j]].eff)
            => Rank(calls[writes[i]].kind) < Rank(calls[writes[j]].kind)

(***************************************************************************)
(* C7.  A failure reported by the worker.                                  *)
(***************************************************************************)
\* the step that handles an error answer
ErrorHandled ==
    /\ fromWorker # <<>>
    /\ Head(fromWorker).error
    /\ fromWorker' = Tail(fromWorker)

\* C7: handling a failure writes nothing for the failed operation: the color
\* stats keep their values, no result is put on the surface, and the surface
\* changes only where an applyEffects resumed in the same task redraws it by
\* its resizeImage.  The oldest pending operation is started: its request is
\* posted with the surface as the failure left it, and the rest of the queue
\* keeps its order (the resumed applyEffects may queue its next operation
\* behind it), unless the closure of the oldest operation throws.
C7_FailureAdvances ==
    [][ErrorHandled =>
          /\ endColorStats' = endColorStats
          /\ \A i \in DOMAIN writes' :
                \/ i \in DOMAIN writes /\ writes'[i] = writes[i]
                \/ calls'[writes'[i]].kind = "resize"
          /\ canvas' # canvas => Len(writes') > Len(writes)
          /\ pendingOperations = <<>> =>
                (toWorker' = toWorker /\ ~isProcessing' /\ canvas' = canvas)
          /\ (pendingOperations # <<>> /\ ~getImageDataThrows(canvas)) =>
                /\ Len(pendingOperations') >= Len(pendingOperations) - 1
                /\ SubSeq(pendingOperations', 1, Len(pendingOperations) - 1)
                       = Tail(pendingOperations)
                /\ \E r \in toWorker' :
                      /\ toWorker' = toWorker \cup {r}
                      /\ r.id = Head(pendingOperations).id
                      /\ r.imageData = canvas]_vars

\* an operation failed in the worker, and the operation that waited behind
\* it has been posted with the surface as it was
C7_Witness ==
    \E r \in toWorker :
        /\ r.op.enq.busy
        /\ r.id - 1 \in Failed
        /\ r.imageData.ops = <<>>

(***************************************************************************)
(* C8.  The settings an operation uses.                                    *)
(***************************************************************************)
\* C8: a request carries the scale, the palette and the stats setting of the
\* moment it is posted, and a request already posted is not changed by a
\* later setter.
C8_SettingsAtDispatch ==
    [][/\ \A r \in toWorker' \ toWorker :
              /\ r.scale = scale'
              /\ r.palette = palette'
              /\ r.collectStats = colorStatsEnabled'
       /\ \A r \in toWorker : r \in toWorker' \/ r.id \notin {q.id : q \in toWorker'}]_vars

\* a request in flight carries a setting that a setter changed after its
\* operation was queued
C8_Witness ==
    \E r \in toWorker :
        /\ r.op.enq.busy
        /\ \/ r.scale # r.op.enq.scale
           \/ r.palette # r.op.enq.palette
           \/ r.collectStats # r.op.enq.collectStats

(***************************************************************************)
(* C9.  Grayscale in the two pipelines.                                    *)
(***************************************************************************)
\* C9: for every buffer, the worker's grayscale conversion returns the
\* buffer the synchronous convertGrayscale returns.
C9_SameGrayscale ==
    (pure.sync # <<>> /\ pure.worker # <<>>) => pure.sync = pure.worker

(***************************************************************************)
(* C10.  nearestColor.                                                     *)
(***************************************************************************)
\* the entries of pal at the least distance from c
Nearest(c, pal) ==
    {i \in DOMAIN pal : \A j \in DOMAIN pal : colorSim(c, pal[i]) <= colorSim(c, pal[j])}

Max(S) == CHOOSE x \in S : \A y \in S : y <= x

\* C10: on a non-empty palette findSimilarColor returns an entry at the least
\* distance from the color, the last such entry in palette order; so
\* <<5, 5, 0>> in <<10, 0, 0>>, <<0, 10, 0>> gives <<0, 10, 0>>, and a color c
\* in a palette <<c, x>> gives c.
C10_NearestLastOnTies ==
    pure.out # <<>> =>
        /\ pure.out = pure.palette[Max(Nearest(pure.color, pure.palette))]
        /\ \A i \in DOMAIN pure.palette :
               colorSim(pure.color, pure.out) <= colorSim(pure.color, pure.palette[i])
        /\ (pure.color = <<5, 5, 0>> /\ pure.palette = PalB) => pure.out = <<0, 10, 0>>
        /\ (Len(pure.palette) = 2 /\ pure.palette[1] = pure.color) => pure.out = pure.color

\* two different entries are equally close and nearest, and the later one
\* was returned
C10_Witness ==
    /\ pure.out # <<>>
    /\ \E i, j \in Nearest(pure.color, pure.palette) :
           /\ i < j
           /\ pure.palette[i] # pure.palette[j]
           /\ pure.out = pure.palette[j]
           /\ pure.out # pure.palette[i]

(***************************************************************************)
(* C11.  The colors of a converted buffer.                                 *)
(***************************************************************************)
\* the RGB triples of the pixels of a buffer
TriplesOf(data) == {<<data[i][1], data[i][2], data[i][3]>> : i \in DOMAIN data}

\* the entries of a palette
EntriesOf(pal) == {pal[i] : i \in DOMAIN pal}

\* C11: after convertPalette, in the synchronous pipeline and in the worker,
\* the RGB triple of every pixel of the output buffer is an entry of the
\* palette, the buffer keeps its length and every pixel its alpha.
C11_OnlyPaletteColors ==
    \A out \in {pure.sync, pure.worker} :
        out # <<>> =>
            /\ TriplesOf(out) \subseteq EntriesOf(pure.palette)
            /\ Len(out) = Len(pure.data)
            /\ \A i \in DOMAIN out : out[i][4] = pure.data[i][4]

\* both pipelines converted a buffer that had a color outside the palette
C11_Witness ==
    /\ pure.sync # <<>>
    /\ pure.worker # <<>>
    /\ ~(TriplesOf(pure.data) \subseteq EntriesOf(pure.palette))
    /\ Len(pure.palette) > 1

(***************************************************************************)
(* C12 - C19.  The configuration of a pipeline.                            *)
(***************************************************************************)
\* the step is a call of method op
ConfigStep(op) == config'.n = config.n + 1 /\ config'.last.op = op

\* C12: setScale(v) with an integer v outside [1, 50] leaves the stored scale
\* as it was before the call, in both classes.
C12_InvalidScaleKept ==
    [][(/\ ConfigStep("setScale")
        /\ config'.last.arg[1] = "number"
        /\ (config'.last.arg[2] < 1 \/ config'.last.arg[2] > MaxScale))
          => config'.scale = config.scale]_vars

\* C13: a pipeline constructed with config.scale = s, s an integer of
\* [1, 50], has scale s right after construction.
C13_ConfiguredScale ==
    (/\ config.last.op = "constructor"
     /\ config.last.arg.scale[1] = "number"
     /\ config.last.arg.scale[2] >= 1
     /\ config.last.arg.scale[2] <= MaxScale)
       => config.scale = config.last.arg.scale[2]

\* C14: the stored scale is greater than 0 and at most 0.5 in every state.
C14_ScaleInRange == config.scale > 0 /\ config.scale <= MaxScale

\* C15: addPalette(p) appends p to the available palettes, which grow by one,
\* and leaves the active palette and the current index as they were, for
\* every p and in both classes.
C15_AddPaletteAppends ==
    [][ConfigStep("addPalette") =>
          /\ config'.availablePalettes = Append(config.availablePalettes, config'.last.arg)
          /\ config'.palette = config.palette
          /\ config'.currentPaletteIndex = config.currentPaletteIndex]_vars

\* C16: after addPalette(p) and then
\* setPaletteByIndex(getAvailablePalettes().length - 1), the active palette
\* is p.
C16_AddedThenSelected ==
    (/\ config.last.op = "setPaletteByIndex"
     /\ config.prev.op = "addPalette"
     /\ config.last.arg = Len(config.availablePalettes) - 1)
       => config.palette = config.prev.arg

\* C17: setPaletteByIndex(i) with i < 0 or i at or beyond the number of
\* available palettes leaves the active palette, the current index and the
\* available palettes as they were, in both classes.
C17_OutOfBoundsIndexIgnored ==
    [][(/\ ConfigStep("setPaletteByIndex")
        /\ (config'.last.arg < 0 \/ config'.last.arg >= Len(config.availablePalettes)))
          => /\ config'.palette = config.palette
             /\ config'.currentPaletteIndex = config.currentPaletteIndex
             /\ config'.availablePalettes = config.availablePalettes]_vars

\* an index out of bounds was passed, in each class, while the active palette
\* was not the entry at the current index
C17_Witness ==
    /\ config.last.op = "setPaletteByIndex"
    /\ config.last.arg >= Len(config.availablePalettes)
    /\ config.prev.op = "setPalette"
    /\ config.palette # config.availablePalettes[config.currentPaletteIndex + 1]
    /\ config.palette # <<>>

\* C18: the active palette is not empty, in every state.
C18_PaletteNonEmpty == config.palette # <<>>

\* C19: the available palettes are never empty and begin with the default
\* palette, and no call removes or replaces an entry: the list after a call
\* begins with the list before it.
C19_AvailablePalettesKept ==
    [][/\ Len(config.availablePalettes) >= 1
       /\ config.availablePalettes[1] = DEFAULT_PALETTE
       /\ Len(config'.availablePalettes) >= Len(config.availablePalettes)
       /\ SubSeq(config'.availablePalettes, 1, Len(config.availablePalettes))
             = config.availablePalettes]_vars

\* palettes were added to the list by the constructor and by addPalette, and
\* another method was called after
C19_Witness ==
    /\ Len(config.availablePalettes) >= 3
    /\ config.prev.op = "addPalette"
    /\ config.last.op \in {"setPaletteByIndex", "setPalette", "applyEffects"}

(***************************************************************************)
(* C20.  The size resizeImage gives the canvas.                            *)
(***************************************************************************)
\* the canvas keeps the integer part k of the fraction n / d it is assigned
IntegerPart(k, n, d) == k * d <= n /\ n < (k + 1) * d

\* the size out is what the two stages give a W x H source: the width
\* constraint first, then the height constraint on the height that resulted
TwoStages(out, W, H, mw, mh) ==
    LET byWidth == mw # 0 /\ W > mw
    IN  IF byWidth
        THEN \* (mw, H * mw / W), then the height H * mw / W against mh
             IF mh # 0 /\ H * mw > mh * W
             THEN out.h = mh /\ IntegerPart(out.w, mw * mh * W, H * mw)
             ELSE out.w = mw /\ IntegerPart(out.h, H * mw, W)
        ELSE IF mh # 0 /\ H > mh
             THEN out.h = mh /\ IntegerPart(out.w, W * mh, H)
             ELSE out.w = W /\ out.h = H

C21_StatsCoverImage ==
    \A e \in DOMAIN effects :
        (/\ effects[e].stage = "done"
         /\ effects[e].opts.applyPalette
         /\ ~effects[e].opts.resize
         /\ Last(calls).eff = e)
           => /\ endColorStats.pass \in OpsOf(e)
              /\ endColorStats.total = canvas.w * canvas.h

\* the writes to the surface that are results of palette passes
PalettePasses == {i \in DOMAIN writes : writes[i] \in OpIds /\ calls[writes[i]].kind = "palette"}

\* C22: once a palette pass has completed, getColorStats() holds no counts of
\* an earlier pass: it holds the counts of the latest completed pass, or none.
C22_NoStaleStats ==
    PalettePasses # {} =>
        LET latest == writes[Max(PalettePasses)]
        IN  endColorStats.pass \in {0, latest}

(***************************************************************************)
(* C24.  The size constraints.                                             *)
(***************************************************************************)
\* C24: setMaxWidth / setMaxHeight with a value that is no positive number
\* leaves the stored constraint as it was, in both classes, and the stored
\* constraints are absent (0 here) or positive in every state.
C24_InvalidSizeKept ==
    [][/\ (ConfigStep("setMaxWidth") /\ config'.last.arg <= 0)
             => config'.maxWidth = config.maxWidth
       /\ (ConfigStep("setMaxHeight") /\ config'.last.arg <= 0)
             => config'.maxHeight = config.maxHeight
       /\ config'.maxWidth >= 0
       /\ config'.maxHeight >= 0]_vars

(***************************************************************************)
(* C23, C25.  Calls without a source, and calls before a buffer.           *)
(***************************************************************************)
\* the step is new, or a call of a method, and the call is one of ops
SyncStep(ops) ==
    /\ sync'.op \in ops
    /\ (sync.op = "none" \/ sync'.n = sync.n + 1)

\* C23: a construction with no source or no surface, and an operation called
\* while the source is missing, report and return: nothing is thrown, a
\* diagnostic is emitted, and an operation leaves the surface as it was.
C23_MissingReported ==
    [][(/\ SyncStep({"constructor", "draw", "resizeImage", "pixelate",
                     "convertGrayscale", "convertPalette", "applyEffects"})
        /\ (sync.drawfrom = "missing" \/ (sync.op = "none" /\ sync.drawto = "missing")))
          => /\ ~sync'.threw
             /\ sync'.reported
             /\ sync.op # "none" => sync'.canvas = sync.canvas]_vars

\* C25: pixelate, convertGrayscale or convertPalette called while the surface
\* is 0 x 0 (no draw of a loaded source yet) reports and returns: nothing is
\* thrown and the pipeline is as it was.
C25_NoBufferReported ==
    [][(/\ SyncStep({"pixelate", "convertGrayscale", "convertPalette"})
        /\ sync.op # "none"
        /\ sync.canvas.w = 0
        /\ sync.canvas.h = 0)
          => /\ ~sync'.threw
             /\ sync'.reported
             /\ sync'.canvas = sync.canvas
             /\ sync'.endColorStats = sync.endColorStats]_vars

(***************************************************************************)
(* C26 - C28.  The palette extracted from a buffer.                        *)
(***************************************************************************)
\* the pixels of a buffer that are counted: those of alpha 128 or more
Opaque(data) == {i \in DOMAIN data : data[i][4] >= 128}

\* the quantization buckets that received a pixel
Buckets(data) == {colorKey(data[i]) : i \in Opaque(data)}

\* the color a bucket holds after the loop over the pixels
BucketColors(data) ==
    LET colorMap == countPixels(data, 1, strideOf(data), <<>>)
    IN  {colorMap[k].color : k \in DOMAIN colorMap}

Min(a, b) == IF a <= b THEN a ELSE b

\* C26: the result has min(numColors, number of buckets that received an
\* opaque pixel) colors, so never more than numColors, and each of them is
\* the color of a bucket.
C26_LengthIsMin ==
    (pure.fn = "extract" /\ pure.done) =>
        /\ Len(pure.out) = Min(pure.numColors, Cardinality(Buckets(pure.imageData)))
        /\ Len(pure.out) <= pure.numColors
        /\ \A k \in DOMAIN pure.out : pure.out[k] \in BucketColors(pure.imageData)

\* more buckets than the threshold pass takes, and room for them
C26_Witness ==
    /\ pure.fn = "extract"
    /\ pure.done
    /\ Cardinality(Buckets(pure.imageData)) = 3
    /\ pure.numColors = 3
    /\ \E i, j \in DOMAIN pure.out :
           i # j /\ colorSim(pure.out[i], pure.out[j]) < similarityThreshold * similarityThreshold

\* C27: no two entries of the result are the same RGB triple.
C27_NoDuplicates ==
    (pure.fn = "extract" /\ pure.done) =>
        \A i, j \in DOMAIN pure.out : i # j => pure.out[i] # pure.out[j]

\* the second loop added a bucket the first loop had left out, after a bucket
\* whose color is a blend of two pixels
C27_Witness ==
    /\ pure.fn = "extract"
    /\ pure.done
    /\ Len(pure.out) >= 2
    /\ Len(pure.out) < Cardinality(Opaque(pure.imageData))
    /\ \E i \in DOMAIN pure.out : \E j \in 1..(i - 1) :
           colorSim(pure.out[i], pure.out[j]) < similarityThreshold * similarityThreshold

\* C28: a buffer whose pixels are all opaque and of one color c gives the
\* palette of the single color c, whatever numColors >= 1 is asked.
C28_SingleColor ==
    (/\ pure.fn = "extract"
     /\ pure.done
     /\ pure.imageData # <<>>
     /\ pure.numColors >= 1
     /\ \A i \in DOMAIN pure.imageData :
            pure.imageData[i][4] >= 128 /\ pure.imageData[i] = pure.imageData[1])
       => pure.out = << <<pure.imageData[1][1], pure.imageData[1][2], pure.imageData[1][3]>> >>

\* the color was folded into its bucket more than once, and more colors
\* were asked than there are
C28_Witness ==
    /\ pure.fn = "extract"
    /\ pure.done
    /\ Len(pure.imageData) >= 3
    /\ pure.numColors > 1
    /\ \A i \in DOMAIN pure.imageData :
           pure.imageData[i][4] >= 128 /\ pure.imageData[i] = pure.imageData[1]
    /\ Len(pure.out) = 1

(***************************************************************************)
(* C29.  The synchronous convertGrayscale.                                 *)
(***************************************************************************)
\* C29: the synchronous convertGrayscale gives a buffer of the same length
\* in which every pixel keeps its alpha and has one value g in 0..255 in its
\* three color channels, g being the integer nearest to (R + G + B) / 3 of
\* the original pixel.
C29_UnweightedMean ==
    (pure.fn = "grayscale" /\ pure.sync # <<>>) =>
        /\ Len(pure.sync) = Len(pure.data)
        /\ \A i \in DOMAIN pure.data :
              LET sum == pure.data[i][1] + pure.data[i][2] + pure.data[i][3]
                  g == pure.sync[i][1]
              IN  /\ g \in 0..255
                  /\ pure.sync[i][2] = g
                  /\ pure.sync[i][3] = g
                  /\ 3 * g - sum \in -1..1
                  /\ pure.sync[i][4] = pure.data[i][4]

\* a converted buffer with a pixel whose mean is not an integer, and pixels
\* of both alpha values
C29_Witness ==
    /\ pure.fn = "grayscale"
    /\ pure.sync # <<>>
    /\ \E i \in DOMAIN pure.data :
           (pure.data[i][1] + pure.data[i][2] + pure.data[i][3]) % 3 = 2
    /\ \E i, j \in DOMAIN pure.data : pure.data[i][4] = 0 /\ pure.data[j][4] = 255

(***************************************************************************)
(* C30.  The blocks of a pixelated surface.                                *)
(***************************************************************************)
\* the blocks of a result: the longest runs of columns that copy the same
\* column of the reduced image, each as <<first, last>>
Blocks(columns) ==
    {<<a, b>> \in (DOMAIN columns) \X (DOMAIN columns) :
        /\ a <= b
        /\ \A x \in a..b : columns[x] = columns[a]
        /\ (a > 1 => columns[a - 1] # columns[a])
        /\ (b < Len(columns) => columns[b + 1] # columns[b])}

\* every block has the given side, but the last one, which the edge of the
\* surface may cut short
BlocksOfSide(columns, side) ==
    \A bl \in Blocks(columns) :
        IF bl[2] = Len(columns) THEN bl[2] - bl[1] + 1 <= side
        ELSE bl[2] - bl[1] + 1 = side

\* C30: a surface pixelated at scale s is made of blocks of side
\* round(1 / s), in the synchronous pipeline and in the worker.
C30_UniformBlocks ==
    pure.fn = "pixelate" =>
        /\ (pure.sync.done => BlocksOfSide(pure.sync.columns, round(100, pure.scale)))
        /\ ((pure.worker.done /\ ~pure.worker.failed)
               => BlocksOfSide(pure.worker.columns, round(100, pure.scale)))

(***************************************************************************)
(* C31.  A rejected import.                                                *)
(***************************************************************************)
\* a step that imports a file
Imported == pure.fn = "import" /\ pure'.n = pure.n + 1

\* C31: an import whose file gives no color, or gives the colors of a custom
\* palette already saved, changes neither the saved palettes nor the saved
\* names and adds no palette to the pipeline.
C31_RejectedImportKeepsState ==
    [][(/\ Imported
        /\ \/ rgbColors(pure'.file) = <<>>
           \/ \E i \in DOMAIN pure.customPalettes :
                 pure.customPalettes[i] = rgbColors(pure'.file))
          => /\ pure'.customPalettes = pure.customPalettes
             /\ pure'.customPaletteNames = pure.customPaletteNames
             /\ pure'.availablePalettes = pure.availablePalettes]_vars

\* the second import was rejected: its file gives the colors of the palette
\* the first import saved
C31_Witness ==
    /\ pure.fn = "import"
    /\ pure.n = 2
    /\ pure.alerts = 1
    /\ Len(pure.customPalettes) = 1
    /\ pure.file # <<>>
    /\ rgbColors(pure.file) = pure.customPalettes[1]

(***************************************************************************)
(* C32.  The running mean of a bucket.                                     *)
(***************************************************************************)
\* the buckets after the first i pixels of a buffer
BucketsAfter(data, i) == countPixels(SubSeq(data, 1, i), 1, 1, <<>>)

\* C32: a pixel folded into a bucket that holds n pixels of mean m makes the
\* bucket's count n + 1 and, in each channel, its mean
\* round((m * n + v) / (n + 1)), v being the pixel's value.
C32_RunningMean ==
    (pure.fn = "extract" /\ pure.done) =>
        \A i \in DOMAIN pure.imageData :
            LET px == pure.imageData[i]
                before == BucketsAfter(pure.imageData, i - 1)
                after == BucketsAfter(pure.imageData, i)
            IN  \A k \in DOMAIN before :
                    (px[4] >= 128 /\ before[k].key = colorKey(px)) =>
                        /\ after[k].count = before[k].count + 1
                        /\ \A c \in 1..3 :
                              after[k].color[c]
                                 = round(before[k].color[c] * before[k].count + px[c],
                                         before[k].count + 1)

(***************************************************************************)
(* C33.  The threshold pass.                                               *)
(***************************************************************************)
\* the buckets of a buffer in the order the passes take them
SortedColors(data) == sortByCount(countPixels(data, 1, strideOf(data), <<>>))

\* what the threshold pass has selected after the first i buckets
SelectedAfter(data, numColors, i) ==
    deduplicate(SubSeq(SortedColors(data), 1, i), 1, numColors, <<>>)

Closer(c, selected) ==
    \E k \in DOMAIN selected : colorSim(c, selected[k]) < similarityThreshold * similarityThreshold

\* C33: the colors the threshold pass selects are pairwise at distance 25 or
\* more and are the first colors of the result; a bucket the pass comes to is
\* left out exactly when it is closer than 25 to a color selected before it.
C33_ThresholdPass ==
    (pure.fn = "extract" /\ pure.done) =>
        LET sorted == SortedColors(pure.imageData)
            selected == SelectedAfter(pure.imageData, pure.numColors, Len(sorted))
        IN  /\ \A i, j \in DOMAIN selected :
                  i # j => colorSim(selected[i], selected[j])
                              >= similarityThreshold * similarityThreshold
            /\ Len(selected) <= Len(pure.out)
            /\ SubSeq(pure.out, 1, Len(selected)) = selected
            /\ \A i \in DOMAIN sorted :
                  LET before == SelectedAfter(pure.imageData, pure.numColors, i - 1)
                      after == SelectedAfter(pure.imageData, pure.numColors, i)
                  IN  Len(before) < pure.numColors =>
                          /\ (Closer(sorted[i], before) <=> after = before)
                          /\ (~Closer(sorted[i], before) <=> after = Append(before, sorted[i]))

\* the pass left out a bucket closer than 25 to a selected one and selected
\* one at distance 25 from it
C33_Witness ==
    /\ pure.fn = "extract"
    /\ pure.done
    /\ LET sorted == SortedColors(pure.imageData)
           selected == SelectedAfter(pure.imageData, pure.numColors, Len(sorted))
       IN  /\ Len(sorted) = 3
           /\ Len(selected) = 2
           /\ colorSim(selected[1], selected[2]) = similarityThreshold * similarityThreshold
           /\ Closer(sorted[2], <<selected[1]>>)

(***************************************************************************)
(* C34.  Pixels of alpha below 128.                                        *)
(***************************************************************************)
\* the buffers that differ from data only in the color of pixels of alpha
\* below 128
RECURSIVE Variants(_)
Variants(data) ==
    IF data = <<>> THEN {<<>>}
    ELSE LET px == Head(data)
             heads == IF px[4] < 128
                      THEN {x \in ExtractPixels : x[4] = px[4]}
                      ELSE {px}
         IN  {<<x>> \o v : x \in heads, v \in Variants(Tail(data))}

\* C34: two buffers of one size that differ only in the colors of pixels of
\* alpha below 128 give the same palette, whatever numColors is.
C34_TransparentIgnored ==
    (pure.fn = "extract" /\ pure.done) =>
        \A other \in Variants(pure.imageData) :
            \A numColors \in 0..MaxExtractPixels :
                extractPaletteFromImageData(other, numColors)
                    = extractPaletteFromImageData(pure.imageData, numColors)

\* a palette was extracted from a buffer with a pixel below 128 between two
\* pixels that are counted
C34_Witness ==
    /\ pure.fn = "extract"
    /\ pure.done
    /\ Len(pure.imageData) = 3
    /\ pure.imageData[1][4] >= 128
    /\ pure.imageData[2][4] < 128
    /\ pure.imageData[3][4] >= 128
    /\ Len(pure.out) = 2

(***************************************************************************)
(* C35.  The palette conversion in the two pipelines.                      *)
(***************************************************************************)
\* C35: for every buffer and non-empty palette the worker's palette
\* conversion returns the buffer the synchronous convertPalette produces
\* and, when it collects statistics, the same counts of colors.
C35_SamePalette ==
    (pure.fn = "palette" /\ pure.sync # <<>> /\ pure.worker # <<>>) =>
        /\ pure.worker = pure.sync
        /\ pure.collectStats =>
              /\ pure.workerStats.defined
              /\ pure.syncStats.defined
              /\ pure.workerStats.counts = pure.syncStats.counts

\* both pipelines converted a buffer in which a palette color is counted
\* twice, the worker collecting statistics
C35_Witness ==
    /\ pure.fn = "palette"
    /\ pure.sync # <<>>
    /\ pure.worker # <<>>
    /\ pure.collectStats
    /\ pure.sync # pure.data
    /\ \E c \in DOMAIN pure.workerStats.counts : pure.workerStats.counts[c] = 2

(***************************************************************************)
(* C36.  The promises of the operations.                                   *)
(***************************************************************************)
\* C36: the promise of every pixelate(), convertGrayscale() and
\* convertPalette() call resolves in the end if the worker answers every
\* request, whether or not an operation threw when started or was answered
\* with an error.
C36_EveryPromiseResolves ==
    \A id \in 1..MaxCalls : (id \in OpIds) ~> (id \in resolved)

(***************************************************************************)
(* C37.  No operation is stranded in the queue.                            *)
(***************************************************************************)
\* C37: while pendingOperations is not empty, isProcessing is true and a
\* request is in flight or a catch handler is scheduled that will start the
\* next operation; while isProcessing is false, the queue is empty and no
\* request is in flight.
C37_NeverStranded ==
    /\ pendingOperations # <<>> =>
          /\ isProcessing
          /\ toWorker # {} \/ fromWorker # <<>> \/ catching # "no"
    /\ ~isProcessing =>
          /\ pendingOperations = <<>>
          /\ toWorker = {}
          /\ fromWorker = <<>>

\* two operations wait in the queue behind an operation that threw, whose
\* catch handler has not run yet
C37_Witness ==
    /\ Len(pendingOperations) >= 2
    /\ isProcessing
    /\ catching # "no"
    /\ toWorker = {}
    /\ fromWorker = <<>>

(***************************************************************************)
(* C38.  applyEffects calls in turn.                                       *)
(***************************************************************************)
\* the draw of applyEffects call e
DrawOf(e) == CHOOSE i \in DOMAIN calls : calls[i] = [kind |-> "draw", eff |-> e]

\* C38: of two applyEffects calls, the later started after the promise of
\* the earlier resolved: no result of the earlier call is written to the
\* surface after the later call's draw, the later call's pixelate reads the
\* surface as its own draw left it, and once the later call is over and
\* nothing is in flight, the surface holds results of the later call only.
C38_CallsInTurnIsolated ==
    \A e1, e2 \in DOMAIN effects :
        e1 < e2 =>
            /\ \A i, j \in DOMAIN writes :
                  (writes[i] \in OpsOf(e1) /\ writes[j] = DrawOf(e2)) => i < j
            /\ \A r \in toWorker :
                  (r.operation = "pixelate" /\ r.op.eff = e2)
                     => r.imageData = Painted(natural, DrawOf(e2))
            /\ (effects[e2].stage = "done" /\ Posted = {} /\ Queued = {})
                  => /\ ~canvas.torn
                     /\ calls[canvas.base].eff = e2
                     /\ \A k \in DOMAIN canvas.ops : canvas.ops[k] \in OpsOf(e2)

(***************************************************************************)
(* C39.  convertPalette applied twice.                                     *)
(***************************************************************************)
\* C39: convertPalette applied to its own result with the same palette
\* leaves every pixel as it is, whatever the buffer and the palette, a
\* palette with an entry twice or with entries at equal distance from a
\* pixel included.
C39_Idempotent ==
    (pure.fn = "palette" /\ pure.again # <<>>) => pure.again = pure.sync

\* the second pass ran on a buffer the first pass had changed, a pixel of
\* which is at equal distance from two different entries of the palette
C39_Witness ==
    /\ pure.fn = "palette"
    /\ pure.again # <<>>
    /\ pure.sync # pure.data
    /\ Len(pure.palette) = 2
    /\ pure.palette[1] # pure.palette[2]
    /\ \E i \in DOMAIN pure.data :
          colorSim(<<pure.data[i][1], pure.data[i][2], pure.data[i][3]>>, pure.palette[1])
             = colorSim(<<pure.data[i][1], pure.data[i][2], pure.data[i][3]>>, pure.palette[2])

(***************************************************************************)
(* C40.  The canvas controls.                                              *)
(***************************************************************************)
\* C40: once a control has changed and no applyChanges is processing any
\* more, the last applyEffects call was made with the state the controls
\* have, also for a change that came while an applyChanges was processing.
C40_LatestStateApplied ==
    (pure.fn = "controls" /\ pure.n > 0 /\ ~pure.isProcessing) =>
        /\ pure.called
        /\ pure.applied = controlOptions(pure)

====
